---- MODULE Spec2Model ----
(***************************************************************************)
(* A model of the arcane-lang interpreter: the lexer (lexer.rs), the parser *)
(* (parser.rs), the value model (value.rs), the chunk (bytecode.rs), the   *)
(* single-pass compiler (compiler.rs) and the stack VM (vm.rs), with the   *)
(* bracket analysis of the language server (lsp/analysis.rs).              *)
(*                                                                         *)
(* Numbers are f64 in the source.  The model keeps them as normalised      *)
(* fractions num/den (den > 0, gcd 1), which is exact for the small        *)
(* literals the model draws: no rounding, overflow, infinity or NaN arises *)
(* from them.  -0.0 compares equal to 0.0, is falsy and prints as 0 in the *)
(* source, so it is identified with 0.                                     *)
(*                                                                         *)
(* Instruction indices (ip, jump targets, constant indices) are 0-based as *)
(* in the source; TLA+ sequences are 1-based, so code[ip] is code[ip + 1]. *)
(***************************************************************************)
EXTENDS Integers, Sequences, FiniteSets, TLC

VARIABLES origin, lexer, parser, program, chunk, ip, stack, globals, out, status, err,
          analysis, fvm

vars == <<origin, lexer, parser, program, chunk, ip, stack, globals, out, status, err,
          analysis, fvm>>

\* the language server and the VM with call frames, which the pipeline from
\* lexer to legacy VM never touches
elsewhere == <<analysis, fvm>>

\* what no instruction of the VM touches
aside == <<lexer, parser, elsewhere>>

(***************************************************************************)
(* Bounds of the model.                                                    *)
(***************************************************************************)
\* longest statement list given to Compiler::compile
MaxStmts == 2
\* deepest value stack explored (a loop that declares a variable grows it)
MaxStack == 4
\* most values printed in one run
MaxOut == 3
\* longest token list, before its Eof, of which every one is parsed
MaxTokens == 4
\* longest document, in tokens before its Eof, of which every one is analysed
MaxDocTokens == 4
\* most iterations of a recursive loop, and largest initial value of a
\* captured local
MaxLoop == 3

(***************************************************************************)
(* value.rs: Value                                                         *)
(***************************************************************************)
Abs(n) == IF n < 0 THEN -n ELSE n

RECURSIVE Gcd(_, _)
Gcd(a, b) == IF b = 0 THEN a ELSE Gcd(b, a % b)

\* Value::Number(f64), held as the fraction n/d in lowest terms
Number(n, d) ==
    LET g == Gcd(Abs(n), Abs(d))
        s == IF d < 0 THEN -1 ELSE 1
    IN  [t |-> "Number", num |-> (s * n) \div g, den |-> (s * d) \div g]

Boolean(b) == [t |-> "Boolean", b |-> b]

\* Value::String(Rc<String>): equality and truthiness read the text only
String(s) == [t |-> "String", s |-> s]

Nil == [t |-> "Nil"]

\* Value::List(Rc<Vec<Value>>)
List(items) == [t |-> "List", items |-> items]

\* The four kinds below are compared by Rc::ptr_eq: rc is the address of the
\* allocation, name the text its Display shows.
Function(rc, name) == [t |-> "Function", rc |-> rc, name |-> name]

Closure(rc, name) == [t |-> "Closure", rc |-> rc, name |-> name]

NativeFunction(rc, name) == [t |-> "NativeFunction", rc |-> rc, name |-> name]

TypeConstructor(rc, type_name, constructor_name) ==
    [t |-> "TypeConstructor", rc |-> rc, type_name |-> type_name,
     constructor_name |-> constructor_name]

\* Value::Adt(Rc<AdtInstance>)
Adt(type_name, constructor_name, fields) ==
    [t |-> "Adt", type_name |-> type_name,
     constructor_name |-> constructor_name, fields |-> fields]

\* Value::is_truthy with the String arm reading the wrong way round
IsTruthyStringSlip(v) ==
    CASE v.t = "Nil" -> FALSE
      [] v.t = "Boolean" -> v.b
      [] v.t = "Number" -> v.num # 0
      [] v.t = "String" -> v.s = ""
      [] v.t = "List" -> v.items # <<>>
      [] v.t = "Function" -> TRUE
      [] v.t = "Closure" -> TRUE
      [] v.t = "NativeFunction" -> TRUE
      [] v.t = "TypeConstructor" -> TRUE
      [] v.t = "Adt" -> TRUE

\* Value::is_truthy
IsTruthy(v) ==
    CASE v.t = "Nil" -> FALSE
      [] v.t = "Boolean" -> v.b
      [] v.t = "Number" -> v.num # 0
      [] v.t = "String" -> v.s # ""
      [] v.t = "List" -> v.items # <<>>
      [] v.t = "Function" -> TRUE
      [] v.t = "Closure" -> TRUE
      [] v.t = "NativeFunction" -> TRUE
      [] v.t = "TypeConstructor" -> TRUE
      [] v.t = "Adt" -> TRUE

\* impl PartialEq for Value; Vec<Value> equality is length and element-wise eq
RECURSIVE ValueEq(_, _)
ValueEq(a, b) ==
    LET VecEq(x, y) ==
            /\ Len(x) = Len(y)
            /\ \A i \in 1..Len(x) : ValueEq(x[i], y[i])
    IN  CASE a.t = "Number" /\ b.t = "Number" ->
                a.num * b.den = b.num * a.den
          [] a.t = "Boolean" /\ b.t = "Boolean" -> a.b = b.b
          [] a.t = "String" /\ b.t = "String" -> a.s = b.s
          [] a.t = "Nil" /\ b.t = "Nil" -> TRUE
          [] a.t = "List" /\ b.t = "List" -> VecEq(a.items, b.items)
          [] a.t = "Function" /\ b.t = "Function" -> a.rc = b.rc
          [] a.t = "Closure" /\ b.t = "Closure" -> a.rc = b.rc
          [] a.t = "NativeFunction" /\ b.t = "NativeFunction" -> a.rc = b.rc
          [] a.t = "TypeConstructor" /\ b.t = "TypeConstructor" -> a.rc = b.rc
          [] a.t = "Adt" /\ b.t = "Adt" ->
                /\ a.type_name = b.type_name
                /\ a.constructor_name = b.constructor_name
                /\ VecEq(a.fields, b.fields)
          [] OTHER -> FALSE

\* the digits after the decimal point of rem/den, by long division; an
\* expansion that does not end is cut at n digits (the source prints the
\* shortest digits that read back as the same f64, 16 or 17 of them)
RECURSIVE FractionDigits(_, _, _)
FractionDigits(rem, den, n) ==
    IF rem = 0 \/ n = 0 THEN ""
    ELSE ToString((rem * 10) \div den) \o FractionDigits((rem * 10) % den, den, n - 1)

\* impl fmt::Display for Value
RECURSIVE Display(_), DisplayItems(_)
Display(v) ==
    CASE v.t = "Number" ->
             IF v.den = 1 THEN ToString(v.num)
             ELSE (IF v.num < 0 THEN "-" ELSE "")
                  \o ToString(Abs(v.num) \div v.den) \o "."
                  \o FractionDigits(Abs(v.num) % v.den, v.den, 16)
      [] v.t = "Boolean" -> IF v.b THEN "waar" ELSE "vals"
      [] v.t = "String" -> v.s
      [] v.t = "Nil" -> "nil"
      [] v.t = "List" -> "[" \o DisplayItems(v.items) \o "]"
      [] v.t = "Function" -> "<funksie " \o v.name \o ">"
      [] v.t = "Closure" -> "<funksie " \o v.name \o ">"
      [] v.t = "NativeFunction" -> "<ingeboude " \o v.name \o ">"
      [] v.t = "TypeConstructor" ->
             "<konstruktor " \o v.type_name \o "." \o v.constructor_name \o ">"
      [] v.t = "Adt" ->
             IF v.fields = <<>> THEN v.constructor_name
             ELSE v.constructor_name \o "(" \o DisplayItems(v.fields) \o ")"

\* the items of a list or the fields of an ADT value, separated by ", "
DisplayItems(items) ==
    IF items = <<>> THEN ""
    ELSE IF Len(items) = 1 THEN Display(items[1])
    ELSE Display(items[1]) \o ", " \o DisplayItems(Tail(items))

(***************************************************************************)
(* f64 arithmetic on the fractions                                         *)
(***************************************************************************)
NumAdd(x, y) == Number(x.num * y.den + y.num * x.den, x.den * y.den)

NumSub(x, y) == Number(x.num * y.den - y.num * x.den, x.den * y.den)

NumMul(x, y) == Number(x.num * y.num, x.den * y.den)

\* x / y, y non-zero
NumDiv(x, y) == Number(x.num * y.den, x.den * y.num)

NumNeg(x) == Number(-x.num, x.den)

NumLess(x, y) == x.num * y.den < y.num * x.den

NumIsZero(y) == y.num = 0

\* x % y on f64 is the truncated remainder x - y * trunc(x / y), y non-zero
NumRem(x, y) ==
    LET p == x.num * y.den
        q == x.den * y.num
        tr == (Abs(p) \div Abs(q)) * (IF (p < 0) = (q < 0) THEN 1 ELSE -1)
    IN  NumSub(x, NumMul(y, Number(tr, 1)))

(***************************************************************************)
(* bytecode.rs: OpCode and Chunk                                           *)
(***************************************************************************)
\* an opcode without operand, e.g. Op("Pop")
Op(name) == [op |-> name]

Constant(idx) == [op |-> "Constant", idx |-> idx]

GetVar(name) == [op |-> "GetVar", name |-> name]

SetVar(name) == [op |-> "SetVar", name |-> name]

Jump(target) == [op |-> "Jump", target |-> target]

JumpIfFalse(target) == [op |-> "JumpIfFalse", target |-> target]

\* Chunk::new
NewChunk == [code |-> <<>>, constants |-> <<>>]

\* Chunk::write; the index it returns is the length before the push
Write(ch, op) == [ch EXCEPT !.code = Append(@, op)]

\* Chunk::add_constant; the index it returns is the length before the push
AddConstant(ch, value) == [ch EXCEPT !.constants = Append(@, value)]

\* the value PatchJump gives when patch_jump panics
Panic == [panic |-> "Tried to patch non-jump instruction"]

IsPanic(r) == "panic" \in DOMAIN r

\* patch_jump writing a Jump to target over whatever is at offset
PatchJumpOverwrites(ch, offset, target) ==
    IF offset < Len(ch.code)
    THEN [ch EXCEPT !.code[offset + 1] = Jump(target)]
    ELSE Panic

\* Chunk::patch_jump
PatchJump(ch, offset, target) ==
    IF offset < Len(ch.code) /\ ch.code[offset + 1].op \in {"Jump", "JumpIfFalse"}
    THEN [ch EXCEPT !.code[offset + 1].target = target]
    ELSE Panic

(***************************************************************************)
(* ast.rs and token.rs: the trees the compiler consumes                    *)
(***************************************************************************)
\* Token: the compiler reads token_type only
Token(token_type) == [token_type |-> token_type]

LitNumber(n) == [l |-> "Number", n |-> Number(n, 1)]

LitBoolean(b) == [l |-> "Boolean", b |-> b]

LitNil == [l |-> "Nil"]

Literal(lit) == [k |-> "Literal", lit |-> lit]

Variable(name) == [k |-> "Variable", name |-> name]

Grouping(inner) == [k |-> "Grouping", inner |-> inner]

Assign(name, value) == [k |-> "Assign", name |-> name, value |-> value]

Unary(operator, right) ==
    [k |-> "Unary", operator |-> Token(operator), right |-> right]

Binary(left, operator, right) ==
    [k |-> "Binary", left |-> left, operator |-> Token(operator), right |-> right]

Expression(expr) == [k |-> "Expression", expr |-> expr]

PrintStmt(expr) == [k |-> "Print", expr |-> expr]

VarDecl(name, initializer) ==
    [k |-> "VarDecl", name |-> name, initializer |-> initializer]

Block(statements) == [k |-> "Block", statements |-> statements]

\* else_branch is Option<Box<Stmt>>: <<>> is None, <<s>> is Some(s)
If(condition, then_branch, else_branch) ==
    [k |-> "If", condition |-> condition, then_branch |-> then_branch,
     else_branch |-> else_branch]

While(condition, body) == [k |-> "While", condition |-> condition, body |-> body]

(***************************************************************************)
(* token.rs and lexer.rs: Lexer.  The source text is a sequence of         *)
(* characters, each a string of length one; a lexeme is their              *)
(* concatenation.  A TokenType is a record whose token_type names the      *)
(* variant, with the payload of Number, Str and Identifier beside it.      *)
(***************************************************************************)
\* a TokenType variant without payload
Plain(name) == [token_type |-> name]

\* TokenType::Number(f64)
NumberTok(value) == [token_type |-> "Number", value |-> value]

\* TokenType::Str(String)
StrTok(s) == [token_type |-> "Str", s |-> s]

\* TokenType::Identifier(String)
IdentifierTok(name) == [token_type |-> "Identifier", name |-> name]

\* Token::new
TokenNew(token_type, lexeme, line) ==
    token_type @@ [lexeme |-> lexeme, line |-> line]

\* char::is_ascii_digit, with the value of each digit
DigitChars == <<"0", "1", "2", "3", "4", "5", "6", "7", "8", "9">>

IsAsciiDigit(c) == \E i \in 1..10 : DigitChars[i] = c

DigitValue(c) == (CHOOSE i \in 1..10 : DigitChars[i] = c) - 1

\* char::is_alphabetic on the letters the model's sources are written in
Letters ==
    {"a", "b", "c", "d", "e", "f", "g", "i", "k", "l", "m", "n", "o", "p",
     "r", "s", "t", "u", "v", "w", "x", "y"}

IsAlphabetic(c) == c \in Letters

\* char::is_alphanumeric
IsAlphanumeric(c) == IsAlphabetic(c) \/ IsAsciiDigit(c)

\* '\0', which peek and peek_next give at the end of the source
Nul == "NUL"

\* chars.iter().collect::<String>()
RECURSIVE Collect(_)
Collect(chars) ==
    IF chars = <<>> THEN "" ELSE Head(chars) \o Collect(Tail(chars))

\* Lexer::new
LexerNew(source) ==
    [source |-> source, tokens |-> <<>>, start |-> 0, current |-> 0, line |-> 1]

\* Lexer::is_at_end
LexIsAtEnd(lx) == lx.current >= Len(lx.source)

\* Lexer::advance: the character it returns is LexPeek before it
LexAdvance(lx) == [lx EXCEPT !.current = @ + 1]

\* Lexer::peek
LexPeek(lx) == IF LexIsAtEnd(lx) THEN Nul ELSE lx.source[lx.current + 1]

\* Lexer::peek_next
LexPeekNext(lx) ==
    IF lx.current + 1 >= Len(lx.source) THEN Nul ELSE lx.source[lx.current + 2]

\* Lexer::match_char: whether it matches; the lexer after a match is LexAdvance
MatchChar(lx, expected) == ~LexIsAtEnd(lx) /\ lx.source[lx.current + 1] = expected

\* self.source[self.start..self.current].iter().collect()
Lexeme(lx) == Collect(SubSeq(lx.source, lx.start + 1, lx.current))

\* Lexer::add_token
AddToken(lx, token_type) ==
    [lx EXCEPT !.tokens = Append(@, TokenNew(token_type, Lexeme(lx), lx.line))]

\* while self.peek().is_ascii_digit() { self.advance(); }
RECURSIVE AdvanceDigits(_)
AdvanceDigits(lx) ==
    IF IsAsciiDigit(LexPeek(lx)) THEN AdvanceDigits(LexAdvance(lx)) ELSE lx

\* str::parse::<f64> on digits with at most one '.': the digits read as an
\* integer, over ten to the number of digits after the '.'
RECURSIVE ParseDecimal(_, _, _, _)
ParseDecimal(chars, num, den, after_dot) ==
    IF chars = <<>> THEN Number(num, den)
    ELSE IF Head(chars) = "." THEN ParseDecimal(Tail(chars), num, den, TRUE)
    ELSE ParseDecimal(Tail(chars), 10 * num + DigitValue(Head(chars)),
                      IF after_dot THEN 10 * den ELSE den, after_dot)

\* Lexer::number
LexNumber(lx) ==
    LET lx1 == AdvanceDigits(lx)
        lx2 == IF LexPeek(lx1) = "." /\ IsAsciiDigit(LexPeekNext(lx1))
               THEN AdvanceDigits(LexAdvance(lx1))
               ELSE lx1
        value == ParseDecimal(SubSeq(lx2.source, lx2.start + 1, lx2.current), 0, 1, FALSE)
    IN  AddToken(lx2, NumberTok(value))

\* while self.peek().is_alphanumeric() || self.peek() == '_' { self.advance(); }
RECURSIVE AdvanceWord(_)
AdvanceWord(lx) ==
    IF IsAlphanumeric(LexPeek(lx)) \/ LexPeek(lx) = "_"
    THEN AdvanceWord(LexAdvance(lx))
    ELSE lx

\* the match of Lexer::identifier on the lexeme
KeywordOrIdentifier(lexeme) ==
    CASE lexeme = "as" -> Plain("As")
      [] lexeme = "anders" -> Plain("Anders")
      [] lexeme = "terwyl" -> Plain("Terwyl")
      [] lexeme = "druk" -> Plain("Druk")
      [] lexeme = "waar" -> Plain("Waar")
      [] lexeme = "vals" -> Plain("Vals")
      [] lexeme = "funksie" -> Plain("Funksie")
      [] lexeme = "fn" -> Plain("Fn")
      [] lexeme = "gee" -> Plain("Gee")
      [] lexeme = "laat" -> Plain("Laat")
      [] lexeme = "pas" -> Plain("Pas")
      [] lexeme = "geval" -> Plain("Geval")
      [] lexeme = "tipe" -> Plain("Tipe")
      [] lexeme = "of" -> Plain("Of")
      [] lexeme = "laai" -> Plain("Laai")
      [] lexeme = "verskaf" -> Plain("Verskaf")
      [] lexeme = "_" -> Plain("Underscore")
      [] OTHER -> IdentifierTok(lexeme)

\* Lexer::identifier
LexIdentifier(lx) ==
    LET lx1 == AdvanceWord(lx)
    IN  AddToken(lx1, KeywordOrIdentifier(Lexeme(lx1)))

\* the loop of Lexer::string up to the closing quote or the end
RECURSIVE StringBody(_)
StringBody(lx) ==
    IF LexPeek(lx) = "\"" \/ LexIsAtEnd(lx) THEN lx
    ELSE LET lx1 == IF LexPeek(lx) = "\n" THEN [lx EXCEPT !.line = @ + 1] ELSE lx
             lx2 == LexAdvance(lx1)
         IN  IF LexPeek(lx1) = "\\"
             THEN StringBody(IF LexIsAtEnd(lx2) THEN lx2 ELSE LexAdvance(lx2))
             ELSE StringBody(lx2)

\* Lexer::process_escapes: the processed string, or the error
RECURSIVE ProcessEscapes(_, _)
ProcessEscapes(chars, result) ==
    IF chars = <<>> THEN [s |-> result, err |-> ""]
    ELSE IF Head(chars) # "\\" THEN ProcessEscapes(Tail(chars), result \o Head(chars))
    ELSE IF Len(chars) = 1
         THEN [s |-> result, err |-> "Onverwagte einde van string na \\"]
    ELSE LET e == chars[2]
             rest == Tail(Tail(chars))
         IN  CASE e = "n" -> ProcessEscapes(rest, result \o "\n")
               [] e = "t" -> ProcessEscapes(rest, result \o "\t")
               [] e = "r" -> ProcessEscapes(rest, result \o "\r")
               [] e = "\\" -> ProcessEscapes(rest, result \o "\\")
               [] e = "\"" -> ProcessEscapes(rest, result \o "\"")
               [] OTHER -> [s |-> result,
                            err |-> "Ongeldige ontsnappingskarakter: \\" \o e]

\* what a lexer function returns: the lexer it leaves and the Err, "" for Ok
LexOk(lx) == [lx |-> lx, err |-> ""]

LexErr(lx, msg) == [lx |-> lx, err |-> msg]

\* Lexer::string
LexString(lx) ==
    LET start_line == lx.line
        lx1 == StringBody(lx)
        lx2 == LexAdvance(lx1)
        processed == ProcessEscapes(SubSeq(lx2.source, lx2.start + 2, lx2.current - 1), "")
    IN  IF LexIsAtEnd(lx1)
        THEN LexErr(lx1, "Onbeëindigde string op lyn " \o ToString(start_line))
        ELSE IF processed.err # "" THEN LexErr(lx2, processed.err)
        ELSE LexOk(AddToken(lx2, StrTok(processed.s)))

\* the rest of a // comment: while self.peek() != '\n' && !self.is_at_end()
RECURSIVE SkipComment(_)
SkipComment(lx) ==
    IF LexPeek(lx) # "\n" /\ ~LexIsAtEnd(lx) THEN SkipComment(LexAdvance(lx)) ELSE lx

\* the arms of scan_token that add the token of one character
SingleCharacter(c) ==
    CASE c = "(" -> "LeftParen"
      [] c = ")" -> "RightParen"
      [] c = "{" -> "LeftBrace"
      [] c = "}" -> "RightBrace"
      [] c = "[" -> "LeftBracket"
      [] c = "]" -> "RightBracket"
      [] c = "," -> "Comma"
      [] c = "." -> "Dot"
      [] c = "+" -> "Plus"
      [] c = "*" -> "Star"
      [] c = "%" -> "Percent"
      [] OTHER -> ""

\* an arm of scan_token that tries match_char(second): the token type with
\* the second character and the one without it
OneOrTwo(lx, second, two, one) ==
    IF MatchChar(lx, second) THEN AddToken(LexAdvance(lx), Plain(two))
    ELSE AddToken(lx, Plain(one))

Unexpected(lx, c) ==
    LexErr(lx, "Onverwagte karakter '" \o c \o "' op lyn " \o ToString(lx.line))

\* Lexer::scan_token with self.start = self.current before it
ScanTokenOf(lexer0) ==
    LET lx0 == [lexer0 EXCEPT !.start = lexer0.current]
        c == LexPeek(lx0)
        lx == LexAdvance(lx0)
    IN  CASE SingleCharacter(c) # "" -> LexOk(AddToken(lx, Plain(SingleCharacter(c))))
          [] c = "-" -> LexOk(OneOrTwo(lx, ">", "Arrow", "Minus"))
          [] c = "/" ->
                IF MatchChar(lx, "/") THEN LexOk(SkipComment(LexAdvance(lx)))
                ELSE LexOk(AddToken(lx, Plain("Slash")))
          [] c = "\"" -> LexString(lx)
          [] c = "=" ->
                IF MatchChar(lx, "=") THEN LexOk(AddToken(LexAdvance(lx), Plain("EqualEqual")))
                ELSE LexOk(OneOrTwo(lx, ">", "FatArrow", "Equal"))
          [] c = "!" -> LexOk(OneOrTwo(lx, "=", "BangEqual", "Bang"))
          [] c = "<" -> LexOk(OneOrTwo(lx, "=", "LessEqual", "Less"))
          [] c = ">" -> LexOk(OneOrTwo(lx, "=", "GreaterEqual", "Greater"))
          [] c = "&" ->
                IF MatchChar(lx, "&") THEN LexOk(AddToken(LexAdvance(lx), Plain("And")))
                ELSE Unexpected(lx, "&")
          [] c = "|" ->
                IF MatchChar(lx, "|") THEN LexOk(AddToken(LexAdvance(lx), Plain("Or")))
                ELSE Unexpected(lx, "|")
          [] c = "\n" ->
                LexOk([AddToken(lx, Plain("Newline")) EXCEPT !.line = @ + 1])
          [] c \in {" ", "\r", "\t"} -> LexOk(lx)
          [] OTHER ->
                IF IsAsciiDigit(c) THEN LexOk(LexNumber(lx))
                ELSE IF IsAlphabetic(c) \/ c = "_" THEN LexOk(LexIdentifier(lx))
                ELSE Unexpected(lx, c)

(***************************************************************************)
(* parser.rs: Parser.  The parser state p is its token list and cursor     *)
(* (0-based), with two observations the struct does not hold: how often    *)
(* advance was invoked with the cursor on Eof, and whether an iteration of *)
(* a statement loop ended with neither a token consumed nor an error (the  *)
(* loop then repeats that iteration for ever; the model stops there).      *)
(* A parsing function gives the parser it leaves, its value and the Err it *)
(* returns ("" for Ok).                                                    *)
(***************************************************************************)
\* Parser::new
ParserNew(tokens) ==
    [tokens |-> tokens, current |-> 0, eof_advances |-> 0, stalled |-> FALSE]

\* Ok(v)
POk(p, v) == [p |-> p, v |-> v, err |-> ""]

\* Err(msg)
PErr(p, msg) == [p |-> p, v |-> Nil, err |-> msg]

\* Parser::peek
Peek(p) == p.tokens[p.current + 1]

\* Parser::is_at_end
IsAtEnd(p) == Peek(p).token_type = "Eof"

\* Parser::advance; the token it returns is Peek before it
Advance(p) ==
    IF ~IsAtEnd(p) THEN [p EXCEPT !.current = @ + 1]
    ELSE [p EXCEPT !.eof_advances = @ + 1]

\* Parser::check
Check(p, token_type) == ~IsAtEnd(p) /\ Peek(p).token_type = token_type

\* the Err of consume and consume_identifier
Expected(p, message) ==
    PErr(p, message \o " (lyn " \o ToString(Peek(p).line) \o ")")

\* Parser::consume
Consume(p, token_type, message) ==
    IF Check(p, token_type) THEN POk(Advance(p), Peek(p)) ELSE Expected(p, message)

\* Parser::consume_identifier
ConsumeIdentifier(p, message) ==
    IF Peek(p).token_type = "Identifier" THEN POk(Advance(p), Peek(p).name)
    ELSE Expected(p, message)

\* consume_newline_or_eof calling advance at the end of the tokens too
ConsumeNewlineOrEofAdvances(p) ==
    IF Check(p, "Newline") \/ IsAtEnd(p) THEN POk(Advance(p), Nil)
    ELSE IF Check(p, "RightBrace") THEN POk(p, Nil)
    ELSE PErr(p, "Verwag nuwe lyn na stelling. (lyn " \o ToString(Peek(p).line) \o ")")

\* Parser::consume_newline_or_eof
ConsumeNewlineOrEof(p) ==
    IF Check(p, "Newline") THEN POk(Advance(p), Nil)
    ELSE IF IsAtEnd(p) \/ Check(p, "RightBrace") THEN POk(p, Nil)
    ELSE PErr(p, "Verwag nuwe lyn na stelling. (lyn " \o ToString(Peek(p).line) \o ")")

\* Parser::skip_newlines
RECURSIVE SkipNewlines(_)
SkipNewlines(p) == IF Check(p, "Newline") THEN SkipNewlines(Advance(p)) ELSE p

RECURSIVE ParseExpression(_), ParseUnary(_), ParseDeclaration(_)

\* `let v = e;`: the rest of the function, K, runs with the value of e
Bind(v, K(_)) == K(v)

\* `let v = e?;`: an Err returns at once, an Ok value goes on to the rest K
Try(r, K(_)) == IF r.err # "" THEN r ELSE K(r)

\* Parser::primary
ParsePrimary(p) ==
    CASE Check(p, "Waar") -> POk(Advance(p), Literal(LitBoolean(TRUE)))
      [] Check(p, "Vals") -> POk(Advance(p), Literal(LitBoolean(FALSE)))
      [] Peek(p).token_type = "Number" ->
            POk(Advance(p), Literal([l |-> "Number", n |-> Peek(p).value]))
      [] Peek(p).token_type = "Identifier" -> POk(Advance(p), Variable(Peek(p).name))
      [] Check(p, "LeftParen") ->
            Try(ParseExpression(Advance(p)), LAMBDA e :
            Try(Consume(e.p, "RightParen", "Verwag ')' na uitdrukking."), LAMBDA c :
                POk(c.p, Grouping(e.v))))
      [] OTHER -> PErr(p, "Verwag uitdrukking op lyn " \o ToString(Peek(p).line) \o ".")

\* Parser::unary
ParseUnary(p) ==
    IF Check(p, "Bang") \/ Check(p, "Minus")
    THEN Try(ParseUnary(Advance(p)), LAMBDA r :
             POk(r.p, Unary(Peek(p).token_type, r.v)))
    ELSE ParsePrimary(p)

\* the while loop of Parser::factor
RECURSIVE FactorLoop(_, _)
FactorLoop(p, expr) ==
    IF Check(p, "Star") \/ Check(p, "Slash")
    THEN Try(ParseUnary(Advance(p)), LAMBDA r :
             FactorLoop(r.p, Binary(expr, Peek(p).token_type, r.v)))
    ELSE POk(p, expr)

\* the loop of factor taking + and - as well, on one level with * and /
RECURSIVE FlatLoop(_, _)
FlatLoop(p, expr) ==
    IF Check(p, "Star") \/ Check(p, "Slash") \/ Check(p, "Plus") \/ Check(p, "Minus")
    THEN Try(ParseUnary(Advance(p)), LAMBDA r :
             FlatLoop(r.p, Binary(expr, Peek(p).token_type, r.v)))
    ELSE POk(p, expr)

\* factor binding + and - as well, on one level with * and /
ParseFactorFlat(p) == Try(ParseUnary(p), LAMBDA r : FlatLoop(r.p, r.v))

\* Parser::factor
ParseFactor(p) == Try(ParseUnary(p), LAMBDA r : FactorLoop(r.p, r.v))

\* the while loop of Parser::term
RECURSIVE TermLoop(_, _)
TermLoop(p, expr) ==
    IF Check(p, "Plus") \/ Check(p, "Minus")
    THEN Try(ParseFactor(Advance(p)), LAMBDA r :
             TermLoop(r.p, Binary(expr, Peek(p).token_type, r.v)))
    ELSE POk(p, expr)

\* Parser::term
ParseTerm(p) == Try(ParseFactor(p), LAMBDA r : TermLoop(r.p, r.v))

\* the while loop of Parser::comparison
RECURSIVE ComparisonLoop(_, _)
ComparisonLoop(p, expr) ==
    IF Check(p, "Less") \/ Check(p, "LessEqual") \/ Check(p, "Greater")
       \/ Check(p, "GreaterEqual")
    THEN Try(ParseTerm(Advance(p)), LAMBDA r :
             ComparisonLoop(r.p, Binary(expr, Peek(p).token_type, r.v)))
    ELSE POk(p, expr)

\* Parser::comparison
ParseComparison(p) == Try(ParseTerm(p), LAMBDA r : ComparisonLoop(r.p, r.v))

\* the while loop of Parser::equality
RECURSIVE EqualityLoop(_, _)
EqualityLoop(p, expr) ==
    IF Check(p, "EqualEqual") \/ Check(p, "BangEqual")
    THEN Try(ParseComparison(Advance(p)), LAMBDA r :
             EqualityLoop(r.p, Binary(expr, Peek(p).token_type, r.v)))
    ELSE POk(p, expr)

\* Parser::equality
ParseEquality(p) == Try(ParseComparison(p), LAMBDA r : EqualityLoop(r.p, r.v))

\* the while loop of Parser::and
RECURSIVE AndLoop(_, _)
AndLoop(p, expr) ==
    IF Check(p, "And")
    THEN Try(ParseEquality(Advance(p)), LAMBDA r :
             AndLoop(r.p, Binary(expr, Peek(p).token_type, r.v)))
    ELSE POk(p, expr)

\* Parser::and
ParseAnd(p) == Try(ParseEquality(p), LAMBDA r : AndLoop(r.p, r.v))

\* the while loop of Parser::or
RECURSIVE OrLoop(_, _)
OrLoop(p, expr) ==
    IF Check(p, "Or")
    THEN Try(ParseAnd(Advance(p)), LAMBDA r :
             OrLoop(r.p, Binary(expr, Peek(p).token_type, r.v)))
    ELSE POk(p, expr)

\* Parser::or
ParseOr(p) == Try(ParseAnd(p), LAMBDA r : OrLoop(r.p, r.v))

\* Parser::assignment
RECURSIVE ParseAssignment(_)
ParseAssignment(p) ==
    Try(ParseOr(p), LAMBDA expr :
        IF Check(expr.p, "Equal")
        THEN Try(ParseAssignment(Advance(expr.p)), LAMBDA value :
                 IF expr.v.k = "Variable"
                 THEN POk(value.p, Assign(expr.v.name, value.v))
                 ELSE PErr(value.p, "Ongeldige toewysing teiken."))
        ELSE expr)

\* Parser::expression
ParseExpression(p) == ParseAssignment(p)

\* Parser::var_declaration
VarDeclaration(p) ==
    Try(ConsumeIdentifier(p, "Verwag veranderlike naam."), LAMBDA name :
    Try(Consume(name.p, "Equal", "Verwag '=' na veranderlike naam."), LAMBDA eq :
    Try(ParseExpression(eq.p), LAMBDA initializer :
    Try(ConsumeNewlineOrEof(initializer.p), LAMBDA end :
        POk(end.p, VarDecl(name.v, initializer.v))))))

\* Parser::print_statement
PrintStatement(p) ==
    Try(Consume(p, "LeftParen", "Verwag '(' na 'druk'."), LAMBDA open :
    Try(ParseExpression(open.p), LAMBDA value :
    Try(Consume(value.p, "RightParen", "Verwag ')' na uitdrukking."), LAMBDA close :
    Try(ConsumeNewlineOrEof(close.p), LAMBDA end :
        POk(end.p, PrintStmt(value.v))))))

\* the while loop of Parser::block: the statements so far are stmts
RECURSIVE BlockLoop(_, _)
BlockLoop(p, stmts) ==
    IF ~Check(p, "RightBrace") /\ ~IsAtEnd(p)
    THEN Try(ParseDeclaration(p), LAMBDA d :
         Bind(SkipNewlines(d.p), LAMBDA q :
             IF q.current = p.current THEN POk([q EXCEPT !.stalled = TRUE], stmts)
             ELSE BlockLoop(q, Append(stmts, d.v))))
    ELSE POk(p, stmts)

\* the Err a block returns, or the parser a loop stalled in
Stopped(r) == r.err # "" \/ r.p.stalled

\* Parser::block
ParseBlock(p) ==
    Bind(BlockLoop(SkipNewlines(p), <<>>), LAMBDA body :
        IF Stopped(body) THEN body
        ELSE Try(Consume(body.p, "RightBrace", "Verwag '}' na blok."), LAMBDA close :
                 POk(close.p, body.v)))

\* Parser::if_statement
IfStatement(p) ==
    Try(Consume(p, "LeftParen", "Verwag '(' na 'as'."), LAMBDA open :
    Try(ParseExpression(open.p), LAMBDA condition :
    Try(Consume(condition.p, "RightParen", "Verwag ')' na voorwaarde."), LAMBDA close :
    Try(Consume(SkipNewlines(close.p), "LeftBrace", "Verwag '{' na 'as' voorwaarde."),
        LAMBDA brace :
    Bind(ParseBlock(brace.p), LAMBDA then_branch :
        IF Stopped(then_branch) THEN then_branch
        ELSE Bind(SkipNewlines(then_branch.p), LAMBDA after_then :
            IF Check(after_then, "Anders")
            THEN Try(Consume(SkipNewlines(Advance(after_then)), "LeftBrace",
                             "Verwag '{' na 'anders'."), LAMBDA else_brace :
                 Bind(ParseBlock(else_brace.p), LAMBDA else_branch :
                     IF Stopped(else_branch) THEN else_branch
                     ELSE POk(else_branch.p,
                              If(condition.v, Block(then_branch.v),
                                 <<Block(else_branch.v)>>))))
            ELSE POk(after_then, If(condition.v, Block(then_branch.v), <<>>))))))))

\* Parser::while_statement
WhileStatement(p) ==
    Try(Consume(p, "LeftParen", "Verwag '(' na 'terwyl'."), LAMBDA open :
    Try(ParseExpression(open.p), LAMBDA condition :
    Try(Consume(condition.p, "RightParen", "Verwag ')' na voorwaarde."), LAMBDA close :
    Try(Consume(SkipNewlines(close.p), "LeftBrace", "Verwag '{' na 'terwyl' voorwaarde."),
        LAMBDA brace :
    Bind(ParseBlock(brace.p), LAMBDA body :
        IF Stopped(body) THEN body
        ELSE POk(body.p, While(condition.v, Block(body.v))))))))

\* Parser::expression_statement
ExpressionStatement(p) ==
    Try(ParseExpression(p), LAMBDA expr :
    Try(ConsumeNewlineOrEof(expr.p), LAMBDA end :
        POk(end.p, Expression(expr.v))))

\* Parser::statement
ParseStatement(p) ==
    CASE Check(p, "Druk") -> PrintStatement(Advance(p))
      [] Check(p, "As") -> IfStatement(Advance(p))
      [] Check(p, "Terwyl") -> WhileStatement(Advance(p))
      [] Check(p, "LeftBrace") ->
            Bind(ParseBlock(Advance(p)), LAMBDA b :
                IF Stopped(b) THEN b ELSE POk(b.p, Block(b.v)))
      [] OTHER -> ExpressionStatement(p)

\* Parser::declaration
ParseDeclaration(p) ==
    IF Check(p, "Stel") THEN VarDeclaration(Advance(p)) ELSE ParseStatement(p)

\* the while loop of Parser::parse: the statements so far are stmts
RECURSIVE ParseLoop(_, _)
ParseLoop(p, stmts) ==
    IF ~IsAtEnd(p)
    THEN Bind(SkipNewlines(p), LAMBDA q :
             IF IsAtEnd(q) THEN ParseLoop(q, stmts)
             ELSE Bind(ParseDeclaration(q), LAMBDA d :
                      IF Stopped(d) THEN d
                      ELSE IF d.p.current = p.current
                           THEN POk([d.p EXCEPT !.stalled = TRUE], stmts)
                      ELSE ParseLoop(d.p, Append(stmts, d.v))))
    ELSE POk(p, stmts)

\* Parser::parse
Parse(p) == ParseLoop(p, <<>>)

(***************************************************************************)
(* compiler.rs: Compiler.  The compiler state c is its chunk, the error a  *)
(* `?` is propagating (err, "" when none) and whether patch_jump panicked. *)
(***************************************************************************)
\* Compiler::new
\* Compiler::new; patched is no field of the source: it lists the offsets
\* given to patch_jump so far, in the order of the calls
NewCompiler == [chunk |-> NewChunk, err |-> "", panicked |-> FALSE, patched |-> <<>>]

\* an Err is being returned up the call chain, or the process has panicked
Failed(c) == c.err # "" \/ c.panicked

\* return Err(msg)
CompileError(c, msg) == IF Failed(c) THEN c ELSE [c EXCEPT !.err = msg]

\* Compiler::current_offset
CurrentOffset(c) == Len(c.chunk.code)

\* Compiler::emit; its result is the offset CurrentOffset gave before it
Emit(c, op) == IF Failed(c) THEN c ELSE [c EXCEPT !.chunk = Write(@, op)]

\* self.chunk.patch_jump(offset, target) as the compiler calls it
Patch(c, offset, target) ==
    IF Failed(c) THEN c
    ELSE LET r == PatchJump(c.chunk, offset, target)
         IN  IF IsPanic(r) THEN [c EXCEPT !.panicked = TRUE]
             ELSE [c EXCEPT !.chunk = r, !.patched = Append(@, offset)]

\* the Literal arm of compile_expr: Literal -> Value
LiteralValue(lit) ==
    CASE lit.l = "Number" -> lit.n
      [] lit.l = "Boolean" -> Boolean(lit.b)
      [] lit.l = "Nil" -> Nil

\* the operator match of the Unary arm
UnaryOp(token_type) ==
    CASE token_type = "Minus" -> "Negate"
      [] token_type = "Bang" -> "Not"
      [] OTHER -> ""

\* the operator match of the Binary arm (And and Or are lowered to jumps)
BinaryOp(token_type) ==
    CASE token_type = "Plus" -> "Add"
      [] token_type = "Minus" -> "Subtract"
      [] token_type = "Star" -> "Multiply"
      [] token_type = "Slash" -> "Divide"
      [] token_type = "EqualEqual" -> "Equal"
      [] token_type = "BangEqual" -> "NotEqual"
      [] token_type = "Less" -> "Less"
      [] token_type = "LessEqual" -> "LessEqual"
      [] token_type = "Greater" -> "Greater"
      [] token_type = "GreaterEqual" -> "GreaterEqual"
      [] OTHER -> ""

RECURSIVE CompileExpr(_, _)

\* a && b compiled without the Pop of the left value
CompileAndKeepsLeft(c, expr) ==
    LET c1 == CompileExpr(c, expr.left)
        jump == CurrentOffset(c1)
        c2 == Emit(c1, JumpIfFalse(0))
        c4 == CompileExpr(c2, expr.right)
    IN  Patch(c4, jump, CurrentOffset(c4))

\* a && b compiled with its jump patched to the start of a
CompileAndJumpsBack(c, expr) ==
    LET c1 == CompileExpr(c, expr.left)
        jump == CurrentOffset(c1)
        c2 == Emit(c1, JumpIfFalse(0))
        c3 == Emit(c2, Op("Pop"))
        c4 == CompileExpr(c3, expr.right)
    IN  Patch(c4, jump, CurrentOffset(c))

\* the TokenType::And arm of compile_expr
CompileAnd(c, expr) ==
    LET c1 == CompileExpr(c, expr.left)
        jump == CurrentOffset(c1)
        c2 == Emit(c1, JumpIfFalse(0))
        c3 == Emit(c2, Op("Pop"))
        c4 == CompileExpr(c3, expr.right)
    IN  Patch(c4, jump, CurrentOffset(c4))

\* a || b compiled with the two jumps patched to each other's targets
CompileOrSwappedTargets(c, expr) ==
    LET c1 == CompileExpr(c, expr.left)
        else_jump == CurrentOffset(c1)
        c2 == Emit(c1, JumpIfFalse(0))
        end_jump == CurrentOffset(c2)
        c3 == Emit(c2, Jump(0))
        c5 == Emit(c3, Op("Pop"))
        c6 == CompileExpr(c5, expr.right)
        c7 == Patch(c6, else_jump, CurrentOffset(c6))
    IN  Patch(c7, end_jump, CurrentOffset(c3))

\* the TokenType::Or arm of compile_expr
CompileOr(c, expr) ==
    LET c1 == CompileExpr(c, expr.left)
        else_jump == CurrentOffset(c1)
        c2 == Emit(c1, JumpIfFalse(0))
        end_jump == CurrentOffset(c2)
        c3 == Emit(c2, Jump(0))
        c4 == Patch(c3, else_jump, CurrentOffset(c3))
        c5 == Emit(c4, Op("Pop"))
        c6 == CompileExpr(c5, expr.right)
    IN  Patch(c6, end_jump, CurrentOffset(c6))

\* Compiler::compile_expr
CompileExpr(c, expr) ==
    IF Failed(c) THEN c
    ELSE CASE expr.k = "Literal" ->
                LET idx == Len(c.chunk.constants)
                    c1 == [c EXCEPT !.chunk = AddConstant(@, LiteralValue(expr.lit))]
                IN  Emit(c1, Constant(idx))
           [] expr.k = "Variable" -> Emit(c, GetVar(expr.name))
           [] expr.k = "Assign" ->
                Emit(CompileExpr(c, expr.value), SetVar(expr.name))
           [] expr.k = "Grouping" -> CompileExpr(c, expr.inner)
           [] expr.k = "Unary" ->
                LET c1 == CompileExpr(c, expr.right)
                    o == UnaryOp(expr.operator.token_type)
                IN  IF o = "" THEN CompileError(c1, "Onbekende unêre operator.")
                    ELSE Emit(c1, Op(o))
           [] expr.k = "Binary" /\ expr.operator.token_type = "And" ->
                CompileAnd(c, expr)
           [] expr.k = "Binary" /\ expr.operator.token_type = "Or" ->
                CompileOr(c, expr)
           [] expr.k = "Binary" /\ expr.operator.token_type \notin {"And", "Or"} ->
                LET c1 == CompileExpr(c, expr.left)
                    c2 == CompileExpr(c1, expr.right)
                    o == BinaryOp(expr.operator.token_type)
                IN  IF o = "" THEN CompileError(c2, "Onbekende binêre operator.")
                    ELSE Emit(c2, Op(o))

\* the VarDecl arm of compile_stmt
CompileVarDecl(c, stmt) ==
    Emit(CompileExpr(c, stmt.initializer), SetVar(stmt.name))

RECURSIVE CompileStmt(_, _), CompileStmts(_, _)

\* a loop compiled without the Pop at its exit
CompileWhileNoExitPop(c, stmt) ==
    LET loop_start == CurrentOffset(c)
        c1 == CompileExpr(c, stmt.condition)
        exit_jump == CurrentOffset(c1)
        c2 == Emit(c1, JumpIfFalse(0))
        c3 == Emit(c2, Op("Pop"))
        c4 == CompileStmt(c3, stmt.body)
        c5 == Emit(c4, Jump(loop_start))
    IN  Patch(c5, exit_jump, CurrentOffset(c5))

\* the Stmt::While arm of compile_stmt
\* a loop compiled without patching its exit jump
CompileWhileUnpatched(c, stmt) ==
    LET loop_start == CurrentOffset(c)
        c1 == CompileExpr(c, stmt.condition)
        c2 == Emit(c1, JumpIfFalse(0))
        c3 == Emit(c2, Op("Pop"))
        c4 == CompileStmt(c3, stmt.body)
        c5 == Emit(c4, Jump(loop_start))
    IN  Emit(c5, Op("Pop"))

CompileWhile(c, stmt) ==
    LET loop_start == CurrentOffset(c)
        c1 == CompileExpr(c, stmt.condition)
        exit_jump == CurrentOffset(c1)
        c2 == Emit(c1, JumpIfFalse(0))
        c3 == Emit(c2, Op("Pop"))
        c4 == CompileStmt(c3, stmt.body)
        c5 == Emit(c4, Jump(loop_start))
        c6 == Patch(c5, exit_jump, CurrentOffset(c5))
    IN  Emit(c6, Op("Pop"))

\* Compiler::compile_stmt; CompileStmts is the `for stmt in statements` loop
\* of the Block arm and of compile
CompileStmt(c, stmt) ==
    IF Failed(c) THEN c
    ELSE CASE stmt.k = "Expression" ->
                Emit(CompileExpr(c, stmt.expr), Op("Pop"))
           [] stmt.k = "Print" ->
                Emit(CompileExpr(c, stmt.expr), Op("Print"))
           [] stmt.k = "VarDecl" -> CompileVarDecl(c, stmt)
           [] stmt.k = "Block" -> CompileStmts(c, stmt.statements)
           [] stmt.k = "If" /\ stmt.else_branch # <<>> ->
                LET c1 == CompileExpr(c, stmt.condition)
                    jump_to_else == CurrentOffset(c1)
                    c2 == Emit(c1, JumpIfFalse(0))
                    c3 == Emit(c2, Op("Pop"))
                    c4 == CompileStmt(c3, stmt.then_branch)
                    jump_over_else == CurrentOffset(c4)
                    c5 == Emit(c4, Jump(0))
                    c6 == Patch(c5, jump_to_else, CurrentOffset(c5))
                    c7 == Emit(c6, Op("Pop"))
                    c8 == CompileStmt(c7, stmt.else_branch[1])
                IN  Patch(c8, jump_over_else, CurrentOffset(c8))
           [] stmt.k = "If" /\ stmt.else_branch = <<>> ->
                LET c1 == CompileExpr(c, stmt.condition)
                    jump_to_else == CurrentOffset(c1)
                    c2 == Emit(c1, JumpIfFalse(0))
                    c3 == Emit(c2, Op("Pop"))
                    c4 == CompileStmt(c3, stmt.then_branch)
                    c5 == Patch(c4, jump_to_else, CurrentOffset(c4))
                IN  Emit(c5, Op("Pop"))
           [] stmt.k = "While" -> CompileWhile(c, stmt)

CompileStmts(c, statements) ==
    IF statements = <<>> THEN c
    ELSE CompileStmts(CompileStmt(c, Head(statements)), Tail(statements))

\* compile without the Return it emits after the last statement
CompileNoReturn(statements) == CompileStmts(NewCompiler, statements)

\* Compiler::compile: the compiler state after the final emit; the Result is
\* Ok(chunk) unless Failed
Compile(statements) == Emit(CompileStmts(NewCompiler, statements), Op("Return"))

(***************************************************************************)
(* The inputs the model draws.  A chunk reaches VM::new either from        *)
(* Compiler::compile (origin "compile") or built by hand with Chunk::write *)
(* and Chunk::add_constant, which are public (origin "raw"); only the      *)
(* second way puts strings, lists, functions and ADT values on the stack,  *)
(* as the compiler has no literal for them.                                *)
(***************************************************************************)
One == Literal(LitNumber(1))

Zero == Literal(LitNumber(0))

Two == Literal(LitNumber(2))

Waar == Literal(LitBoolean(TRUE))

Vals == Literal(LitBoolean(FALSE))

X == Variable("x")

\* x = x + 1
Increment == Assign("x", Binary(X, "Plus", One))

DeclStmts ==
    {VarDecl("x", One), VarDecl("x", Zero), VarDecl("y", X)}

ExprStmts ==
    {Expression(Assign("x", Two)), Expression(Assign("x", Assign("y", One))),
     Expression(Increment), PrintStmt(X), PrintStmt(Binary(X, "Plus", Variable("y")))}

\* the bodies of blocks, if branches and loops
Bodies ==
    {Block(<<>>), Block(<<PrintStmt(One)>>), Block(<<VarDecl("x", Two)>>),
     Block(<<VarDecl("x", One), VarDecl("y", Two)>>)}

IfStmts ==
    {If(c, b, e) : c \in {Waar, Vals, X},
                   b \in {Block(<<>>), Block(<<PrintStmt(One)>>)},
                   e \in {<<>>, <<Block(<<>>)>>}}

WhileStmts ==
    {While(Vals, Block(<<>>)), While(Waar, Block(<<>>)),
     While(Waar, Block(<<PrintStmt(One)>>)),
     While(Waar, Block(<<VarDecl("x", One)>>)),
     While(Binary(X, "Less", Two), Block(<<Expression(Increment)>>))}

CoreStmts == DeclStmts \cup ExprStmts \cup Bodies \cup IfStmts \cup WhileStmts

RECURSIVE SeqsUpTo(_, _)
SeqsUpTo(S, n) ==
    IF n = 0 THEN {<<>>}
    ELSE LET shorter == SeqsUpTo(S, n - 1)
         IN  shorter \cup {Append(q, e) : q \in {r \in shorter : Len(r) = n - 1}, e \in S}

\* operands of the single-expression programs
Operands == {One, Zero, Waar, Vals, Literal(LitNil), X}

BinaryTokens ==
    {"Plus", "Minus", "Star", "Slash", "EqualEqual", "BangEqual", "Less",
     "LessEqual", "Greater", "GreaterEqual", "And", "Or"}

\* druk(a op b), druk(-a), druk(!a), druk((a))
ExprPrograms ==
    {<<PrintStmt(Binary(a, o, b))>> : a \in Operands, o \in BinaryTokens, b \in Operands}
    \cup {<<PrintStmt(Unary(o, a))>> : o \in {"Minus", "Bang"}, a \in Operands}
    \cup {<<PrintStmt(Grouping(a))>> : a \in Operands}

Programs == SeqsUpTo(CoreStmts, MaxStmts) \cup ExprPrograms

\* the values a hand-built constant pool holds
Values ==
    {Number(0, 1), Number(1, 1), Number(2, 1), Number(-1, 1), Number(1, 2),
     Boolean(TRUE), Boolean(FALSE), Nil,
     String(""), String("a"), String("b"),
     List(<<>>), List(<<Number(1, 1)>>), List(<<String("a")>>),
     Function(1, "f"), Function(2, "f"), Closure(3, "f"), Closure(4, "f"),
     NativeFunction(5, "klok"), NativeFunction(6, "klok"),
     TypeConstructor(7, "Opsie", "Geen"), TypeConstructor(8, "Opsie", "Geen"),
     Adt("Opsie", "Geen", <<>>), Adt("Opsie", "Sommige", <<Number(1, 1)>>),
     Adt("Opsie", "Sommige", <<Number(2, 1)>>)}

BinaryOps ==
    {"Add", "Subtract", "Multiply", "Divide", "Modulo", "Equal", "NotEqual",
     "Less", "LessEqual", "Greater", "GreaterEqual"}

UnaryOps == {"Negate", "Not", "Pop"}

\* the characters of the words the model's sources are written with
W_stel == <<"s", "t", "e", "l">>

W_laat == <<"l", "a", "a", "t">>

W_as == <<"a", "s">>

W_anders == <<"a", "n", "d", "e", "r", "s">>

W_terwyl == <<"t", "e", "r", "w", "y", "l">>

W_druk == <<"d", "r", "u", "k">>

W_waar == <<"w", "a", "a", "r">>

W_vals == <<"v", "a", "l", "s">>

W_funksie == <<"f", "u", "n", "k", "s", "i", "e">>

W_fn == <<"f", "n">>

W_gee == <<"g", "e", "e">>

W_mut == <<"m", "u", "t">>

W_pas == <<"p", "a", "s">>

W_geval == <<"g", "e", "v", "a", "l">>

W_tipe == <<"t", "i", "p", "e">>

W_of == <<"o", "f">>

\* the keyword lexemes as sources of one word
KeywordSources ==
    {W_stel, W_laat, W_as, W_anders, W_terwyl, W_druk, W_waar, W_vals,
     W_funksie, W_fn, W_gee, W_mut, W_pas, W_geval, W_tipe, W_of}

\* druk(e) for the characters e of an expression
DrukSource(e) == W_druk \o <<"(">> \o e \o <<")">>

\* whole programs and texts that exercise each arm of scan_token
ProgramSources ==
    {DrukSource(<<"1", " ", "+", " ", "2", " ", "*", " ", "3">>),
     DrukSource(<<"2", "*", "3", "+", "1">>),
     DrukSource(<<"3", " ", "-", " ", "2", " ", "-", " ", "1">>),
     DrukSource(<<"8", "/", "4", "/", "2">>),
     DrukSource(<<"1", ".", "5", "+", "1", ".", "5">>),
     DrukSource(<<"1", "<", "2", "=", "=", "w", "a", "a", "r">>),
     DrukSource(W_waar \o <<"|", "|">> \o W_vals \o <<"&", "&">> \o W_vals),
     DrukSource(<<"!">> \o W_vals \o <<"!", "=">> \o W_vals),
     DrukSource(<<"-", "1", "<", "=", "2", ">", "=", "1">>),
     W_stel \o <<" ", "x", " ", "=", " ", "1", "\n">> \o DrukSource(<<"x">>),
     <<"x", " ", "=", " ", "1", "\n">> \o DrukSource(<<"x">>) \o <<"\n">>,
     <<"x", "_", "1", "=", "2", " ", "/", "/", " ", "c", "\n">>,
     W_as \o <<" ", "(">> \o W_waar \o <<")", " ", "{", "\n">>
        \o DrukSource(<<"1">>) \o <<"\n", "}", " ">> \o W_anders \o <<" ", "{", "}">>,
     <<"x", "=", "0", "\n">> \o W_terwyl \o <<"(", "x", "<", "2", ")", "{", "x", "=",
        "x", "+", "1", "}">>,
     DrukSource(<<"\"", "a", "\\", "n", "\"">>),
     DrukSource(<<"\"", "a", "\\", "q", "\"">>),
     <<"\"", "a", "\n">>,
     <<"[", "1", ",", "2", "]", ".", "x", "%", "2", "-", ">", "=", ">", "_">>,
     <<"1", "&", "2">>, <<"1", "|", "2">>, <<"1", "@", "2">>, <<"\t", "\r", " ">>}

Sources == KeywordSources \cup ProgramSources

\* a token as the parser reads it, made by hand on line 1
Tok(name) == TokenNew(Plain(name), "", 1)

NumTok(n) == TokenNew(NumberTok(Number(n, 1)), ToString(n), 1)

IdentTok(name) == TokenNew(IdentifierTok(name), name, 1)

Eof == Tok("Eof")

\* the token types of the binary operators the parser knows
BinaryOperators ==
    {"Star", "Slash", "Plus", "Minus", "Less", "LessEqual", "Greater",
     "GreaterEqual", "EqualEqual", "BangEqual", "And", "Or"}

\* druk(1 op1 2 op2 3)
TwoOperatorTokens ==
    {<<Tok("Druk"), Tok("LeftParen"), NumTok(1), Tok(o1), NumTok(2), Tok(o2),
       NumTok(3), Tok("RightParen"), Eof>> : o1 \in BinaryOperators, o2 \in BinaryOperators}

\* the tokens of which every list up to MaxTokens is parsed
TokenAlphabet ==
    {Tok("Newline"), Tok("LeftBrace"), Tok("RightBrace"), Tok("Stel"),
     IdentTok("x"), Tok("Equal"), NumTok(1), Tok("Plus"), Tok("Druk"),
     Tok("LeftParen"), Tok("RightParen")}

\* every token list ends with one Eof
TokenLists ==
    {Append(ts, Eof) : ts \in SeqsUpTo(TokenAlphabet, MaxTokens)}
    \cup TwoOperatorTokens

\* [Constant(0), Constant(1), op], [Constant(0), op] and [op]: one
\* instruction on two, one and no operands, with no Return after it
RawChunks ==
    {[code |-> <<Constant(0), Constant(1), Op(o)>>, constants |-> <<a, b>>] :
        a \in Values, b \in Values, o \in BinaryOps}
    \cup {[code |-> <<Constant(0), i>>, constants |-> <<a>>] :
        a \in Values,
        i \in {Op(o) : o \in BinaryOps \cup UnaryOps \cup {"And", "Or"}}
              \cup {SetVar("x"), JumpIfFalse(3)}}
    \cup {[code |-> <<i>>, constants |-> <<>>] :
        i \in {Op(o) : o \in BinaryOps \cup UnaryOps} \cup {SetVar("x"), JumpIfFalse(3)}}

(***************************************************************************)
(* lsp/analysis.rs: parse_for_diagnostics.  The language server has its    *)
(* own Token, with the columns where the lexeme starts and ends; a bracket *)
(* stack holds references to tokens, here their indices (0-based).         *)
(***************************************************************************)
\* struct Token of the language server
LspToken(token_type, lexeme, line, start_col, end_col) ==
    token_type @@ [lexeme |-> lexeme, line |-> line,
                   start_col |-> start_col, end_col |-> end_col]

\* Diagnostic { range, severity: ERROR, source: "arcane", message }
Diagnostic(line, start_character, end_character, message) ==
    [range |-> [start |-> [line |-> line, character |-> start_character],
                end |-> [line |-> line, character |-> end_character]],
     severity |-> "ERROR", source |-> "arcane", message |-> message]

\* the Diagnostic whose range is the token
DiagnosticAt(token, message) ==
    Diagnostic(token.line, token.start_col, token.end_col, message)

\* the Diagnostic whose range is the column after the token
DiagnosticAfter(token, message) ==
    Diagnostic(token.line, token.end_col, token.end_col + 1, message)

\* the locals of parse_for_diagnostics before its first loop
AnalysisNew(tokens) ==
    [tokens |-> tokens, stage |-> "first_pass", i |-> 0, paren_stack |-> <<>>,
     brace_stack |-> <<>>, declared_vars |-> {}, diagnostics |-> <<>>]

\* no document is being analysed
NoAnalysis == [AnalysisNew(<<>>) EXCEPT !.stage = "idle"]

\* tokens[k] for the 0-based k
TokenAt(a, k) == a.tokens[k + 1]

IsIdentifier(token) == token.token_type = "Identifier"

\* the first pass: the names that follow a Stel anywhere in the document
DeclaredVars(tokens) ==
    {tokens[j + 1].name : j \in {k \in 1 .. Len(tokens) - 1 :
                                    /\ tokens[k].token_type = "Stel"
                                    /\ IsIdentifier(tokens[k + 1])}}

\* Vec::pop
PopStack(stk) == SubSeq(stk, 1, Len(stk) - 1)

\* the arm of a closing bracket: pop the stack of its kind, or report the
\* bracket when the stack is empty
CloseBracket(a, stack_name, message) ==
    IF a[stack_name] = <<>>
    THEN [a EXCEPT !.diagnostics = Append(@, DiagnosticAt(TokenAt(a, a.i), message))]
    ELSE [a EXCEPT ![stack_name] = PopStack(@)]

\* the RightParen arm
CloseRightParen(a) ==
    CloseBracket(a, "paren_stack", "Ongepaarde ')' - geen ooreenstemmende '(' gevind")

\* the RightBrace arm popping the stack of the parens
CloseRightBraceOnParens(a) ==
    CloseBracket(a, "paren_stack", "Ongepaarde '}' - geen ooreenstemmende '{' gevind")

\* the RightBrace arm
CloseRightBrace(a) ==
    CloseBracket(a, "brace_stack", "Ongepaarde '}' - geen ooreenstemmende '{' gevind")

\* the Stel arm
StelArm(a) ==
    LET n == Len(a.tokens)
    IN  IF a.i + 1 < n
        THEN IF ~IsIdentifier(TokenAt(a, a.i + 1))
             THEN [a EXCEPT !.diagnostics =
                      Append(@, DiagnosticAt(TokenAt(a, a.i),
                                             "Verwag veranderlike naam na 'stel'"))]
             ELSE IF a.i + 2 < n /\ TokenAt(a, a.i + 2).token_type # "Equal"
             THEN [a EXCEPT !.diagnostics =
                      Append(@, DiagnosticAfter(TokenAt(a, a.i + 1),
                                                "Verwag '=' na veranderlike naam"))]
             ELSE a
        ELSE a

\* the As | Terwyl arm and the Druk arm
ExpectLeftParen(a, message) ==
    IF a.i + 1 < Len(a.tokens) /\ TokenAt(a, a.i + 1).token_type # "LeftParen"
    THEN [a EXCEPT !.diagnostics = Append(@, DiagnosticAfter(TokenAt(a, a.i), message))]
    ELSE a

\* the Identifier arm
IdentifierArm(a) ==
    LET token == TokenAt(a, a.i)
        is_declaration == a.i > 0 /\ TokenAt(a, a.i - 1).token_type = "Stel"
        is_function_call ==
            a.i + 1 < Len(a.tokens) /\ TokenAt(a, a.i + 1).token_type = "LeftParen"
    IN  IF is_function_call
        THEN IF token.name # "druk"
             THEN [a EXCEPT !.diagnostics =
                      Append(@, DiagnosticAt(token, "Onbekende funksie: '" \o token.name
                                                    \o "'. Bedoel jy 'druk'?"))]
             ELSE a
        ELSE IF ~is_declaration /\ token.name \notin a.declared_vars
        THEN [a EXCEPT !.diagnostics =
                 Append(@, DiagnosticAt(token, "Ongedefinieerde veranderlike: '"
                                               \o token.name \o "'"))]
        ELSE a

\* the match on tokens[i]
MatchToken(a) ==
    LET token == TokenAt(a, a.i)
        t == token.token_type
    IN  CASE t = "LeftParen" -> [a EXCEPT !.paren_stack = Append(@, a.i)]
          [] t = "RightParen" -> CloseRightParen(a)
          [] t = "LeftBrace" -> [a EXCEPT !.brace_stack = Append(@, a.i)]
          [] t = "RightBrace" -> CloseRightBrace(a)
          [] t = "Stel" -> StelArm(a)
          [] t \in {"As", "Terwyl"} ->
                ExpectLeftParen(a, "Verwag '(' na '" \o token.lexeme \o "'")
          [] t = "Druk" -> ExpectLeftParen(a, "Verwag '(' na 'druk'")
          [] t = "Identifier" -> IdentifierArm(a)
          [] OTHER -> a

\* one Diagnostic for each token a stack still holds, in the stack's order
RECURSIVE Unclosed(_, _, _)
Unclosed(a, stk, message) ==
    IF stk = <<>> THEN <<>>
    ELSE <<DiagnosticAt(TokenAt(a, Head(stk)), message)>> \o Unclosed(a, Tail(stk), message)

\* the lexemes of the tokens the model's documents are made of
LspLexeme(token_type) ==
    CASE token_type.token_type = "LeftParen" -> "("
      [] token_type.token_type = "RightParen" -> ")"
      [] token_type.token_type = "LeftBrace" -> "{"
      [] token_type.token_type = "RightBrace" -> "}"
      [] token_type.token_type = "Equal" -> "="
      [] token_type.token_type = "Stel" -> "stel"
      [] token_type.token_type = "As" -> "as"
      [] token_type.token_type = "Terwyl" -> "terwyl"
      [] token_type.token_type = "Druk" -> "druk"
      [] token_type.token_type = "Identifier" -> token_type.name
      [] token_type.token_type = "Eof" -> ""

\* the tokens of the one-line document whose lexemes are those of the token
\* types, a space apart from column col on
RECURSIVE Layout(_, _)
Layout(token_types, col) ==
    IF token_types = <<>> THEN <<>>
    ELSE LET lexeme == LspLexeme(Head(token_types))
             end_col == col + Len(lexeme)
         IN  <<LspToken(Head(token_types), lexeme, 0, col, end_col)>>
             \o Layout(Tail(token_types), end_col + 1)

\* the token types of which every document up to MaxDocTokens is analysed
BracketAlphabet ==
    {Plain("LeftParen"), Plain("RightParen"), Plain("LeftBrace"),
     Plain("RightBrace"), Plain("Stel"), IdentifierTok("x")}

\* documents with the other tokens that parse_for_diagnostics looks at
KeywordDocuments ==
    {<<Plain(k), Plain(n)>> : k \in {"As", "Terwyl", "Druk"},
                              n \in {"LeftParen", "LeftBrace"}}
    \cup {<<Plain("Stel"), IdentifierTok("x"), Plain(n)>> : n \in {"Equal", "RightParen"}}
    \cup {<<IdentifierTok(f), Plain("LeftParen"), IdentifierTok("y"), Plain("RightParen")>> :
             f \in {"druk", "f"}}

\* the token lists that Lexer::scan_tokens of the language server hands
\* over: each ends with Eof
Documents ==
    {Layout(Append(tt, Plain("Eof")), 0) :
        tt \in SeqsUpTo(BracketAlphabet, MaxDocTokens) \cup KeywordDocuments}

\* the first loop of parse_for_diagnostics
FirstPass ==
    /\ analysis.stage = "first_pass"
    /\ analysis' = [analysis EXCEPT !.declared_vars = DeclaredVars(analysis.tokens),
                                    !.stage = "main"]
    /\ UNCHANGED <<fvm, lexer, parser, origin, program, chunk, ip, stack, globals, out,
                   status, err>>

\* an iteration of the main loop of parse_for_diagnostics
AnalyseToken ==
    /\ analysis.stage = "main"
    /\ analysis.i < Len(analysis.tokens)
    /\ analysis' = [MatchToken(analysis) EXCEPT !.i = @ + 1]
    /\ UNCHANGED <<fvm, lexer, parser, origin, program, chunk, ip, stack, globals, out,
                   status, err>>

\* the end of parse_for_diagnostics: the unclosed brackets are reported
ReportUnclosed ==
    /\ analysis.stage = "main"
    /\ analysis.i >= Len(analysis.tokens)
    /\ analysis' =
           [analysis EXCEPT
               !.diagnostics =
                   @ \o Unclosed(analysis, analysis.paren_stack, "Ongeslote '(' - verwag ')'")
                     \o Unclosed(analysis, analysis.brace_stack, "Ongeslote '{' - verwag '}'"),
               !.stage = "done"]
    /\ UNCHANGED <<fvm, lexer, parser, origin, program, chunk, ip, stack, globals, out,
                   status, err>>

(***************************************************************************)
(* vm.rs: VM                                                               *)
(***************************************************************************)
\* HashMap::new
NoGlobals == [n \in {} |-> Nil]

\* HashMap::insert
Insert(map, name, value) ==
    [n \in DOMAIN map \cup {name} |-> IF n = name THEN value ELSE map[n]]

\* what becomes of a compilation: it panics in patch_jump, returns Err, or
\* returns Ok(chunk), and only then is there a run
Outcome(c) ==
    IF c.panicked THEN "panicked"
    ELSE IF c.err # "" THEN "compile_error"
    ELSE "running"

(***************************************************************************)
(* The VM with call frames, closures and upvalues.  vm.rs holds the VM of  *)
(* the legacy instructions only; bytecode.rs and value.rs declare the      *)
(* instructions and values of this one, whose steps follow spec.md         *)
(* sections 2, 4.1 and 4.4.  Its state is the record fvm: the function     *)
(* pool, the value stack, the call-frame stack, the globals, the upvalue   *)
(* cells (a cell is referred to by its index, as by an Rc) and the         *)
(* registry of the open ones, sorted by stack index.  Stack indices, slots *)
(* and ip are 0-based.                                                     *)
(***************************************************************************)
GetGlobal(name) == [op |-> "GetGlobal", name |-> name]

DefineGlobal(name) == [op |-> "DefineGlobal", name |-> name]

GetLocal(slot) == [op |-> "GetLocal", slot |-> slot]

GetUpvalue(index) == [op |-> "GetUpvalue", index |-> index]

SetUpvalue(index) == [op |-> "SetUpvalue", index |-> index]

\* struct UpvalueDescriptor
UpvalueDescriptor(index, is_local) == [index |-> index, is_local |-> is_local]

\* OpCode::Closure(usize, Vec<UpvalueDescriptor>)
ClosureOp(idx, descriptors) == [op |-> "Closure", idx |-> idx, descriptors |-> descriptors]

Call(arg_count) == [op |-> "Call", arg_count |-> arg_count]

TailCall(arg_count) == [op |-> "TailCall", arg_count |-> arg_count]

\* Value::Function of struct Function; the function is its own allocation
FunctionValue(name, arity, chunk_index, upvalue_count) ==
    Function(chunk_index, name)
        @@ [arity |-> arity, chunk_index |-> chunk_index, upvalue_count |-> upvalue_count]

\* Value::Closure of struct Closure, allocated at rc
ClosureValue(rc, function, upvalues) ==
    Closure(rc, function.name) @@ [function |-> function, upvalues |-> upvalues]

\* UpvalueLocation::Open(stack index)
Open(slot) == [open |-> TRUE, slot |-> slot]

\* UpvalueLocation::Closed(value)
Closed(value) == [open |-> FALSE, value |-> value]

\* a call frame: the closure being executed, the instruction pointer and
\* the stack base
Frame(closure, frame_ip, base) == [closure |-> closure, ip |-> frame_ip, base |-> base]

\* the closure of the top-level code, which captures nothing
Script == ClosureValue(0, FunctionValue("script", 0, 0, 0), <<>>)

\* a VM on the chunks of a program, of which the first is the top-level code
FrameVM(functions) ==
    [functions |-> functions, stack |-> <<>>, frames |-> <<Frame(Script, 0, 0)>>,
     globals |-> NoGlobals, cells |-> <<>>, open_upvalues |-> <<>>, allocated |-> 1,
     out |-> <<>>, status |-> "running", err |-> ""]

\* no such VM
NoFrameVM == [FrameVM(<<>>) EXCEPT !.status = "idle", !.frames = <<>>]

\* a chunk of the given code and constants
ChunkOf(code, constants) == [code |-> code, constants |-> constants]

\* fn () { c = c + 1; gee c } over the upvalue c
IncChunk ==
    ChunkOf(<<GetUpvalue(0), Constant(0), Op("Add"), SetUpvalue(0), Op("Return")>>,
            <<Number(1, 1)>>)

\* fn () { gee c } over the upvalue c
GetChunk == ChunkOf(<<GetUpvalue(0), Op("Return")>>, <<>>)

IncFunction == FunctionValue("inc", 0, 1, 1)

GetFunction == FunctionValue("get", 0, 2, 1)

\* the local c is captured by inc and by get, which are put in globals;
\* inc() then druk(get())
CaptureAndUse ==
    <<ClosureOp(1, <<UpvalueDescriptor(0, TRUE)>>), DefineGlobal("inc"),
      ClosureOp(2, <<UpvalueDescriptor(0, TRUE)>>), DefineGlobal("get"),
      GetGlobal("inc"), Call(0), Op("Pop"),
      GetGlobal("get"), Call(0), Op("Print")>>

\* inc() then druk(get()), after c has left the stack
UseAgain ==
    <<GetGlobal("inc"), Call(0), Op("Pop"), GetGlobal("get"), Call(0), Op("Print")>>

\* { laat c = c0; inc = fn ...; get = fn ...; inc(); druk(get()) }
\* inc(); druk(get()): the block's end closes the upvalue of c
SharedCellInBlock(c0) ==
    <<ChunkOf(<<Constant(0)>> \o CaptureAndUse \o <<Op("CloseUpvalue")>> \o UseAgain
                  \o <<Constant(3), Op("Return")>>,
              <<Number(c0, 1), IncFunction, GetFunction, Nil>>),
      IncChunk, GetChunk>>

\* fn mk() { laat c = c0; inc = fn ...; get = fn ...; inc(); druk(get()) }
\* mk(); inc(); druk(get()): the return of mk closes the upvalue of c
SharedCellInFunction(c0) ==
    <<ChunkOf(<<ClosureOp(0, <<>>), Call(0), Op("Pop")>> \o UseAgain
                  \o <<Constant(1), Op("Return")>>,
              <<FunctionValue("mk", 0, 3, 0), Nil>>),
      IncChunk, GetChunk,
      ChunkOf(<<Constant(0)>> \o CaptureAndUse \o <<Constant(3), Op("Return")>>,
              <<Number(c0, 1), IncFunction, GetFunction, Nil>>)>>

\* fn loop(n) { as (n == 0) { gee 0 } gee loop(n - 1) }; druk(loop(n0)):
\* the call in return position is a TailCall
TailLoop(n0) ==
    <<ChunkOf(<<ClosureOp(0, <<>>), DefineGlobal("loop"), GetGlobal("loop"),
                Constant(1), Call(1), Op("Print"), Constant(2), Op("Return")>>,
              <<FunctionValue("loop", 1, 1, 0), Number(n0, 1), Nil>>),
      ChunkOf(<<GetLocal(0), Constant(0), Op("Equal"), JumpIfFalse(7), Op("Pop"),
                Constant(0), Op("Return"),
                Op("Pop"), GetGlobal("loop"), GetLocal(0), Constant(1),
                Op("Subtract"), TailCall(1)>>,
              <<Number(0, 1), Number(1, 1)>>)>>

\* the same loop with the call not in return position: fn loop(n) {
\* as (n == 0) { gee 0 } laat r = loop(n - 1); gee r }
CallLoop(n0) ==
    <<TailLoop(n0)[1],
      ChunkOf(<<GetLocal(0), Constant(0), Op("Equal"), JumpIfFalse(7), Op("Pop"),
                Constant(0), Op("Return"),
                Op("Pop"), GetGlobal("loop"), GetLocal(0), Constant(1),
                Op("Subtract"), Call(1), Op("Return")>>,
              <<Number(0, 1), Number(1, 1)>>)>>

FramePrograms ==
    {SharedCellInBlock(c0) : c0 \in 0 .. MaxLoop}
    \cup {SharedCellInFunction(c0) : c0 \in 0 .. MaxLoop}
    \cup {TailLoop(n0) : n0 \in 0 .. MaxLoop}
    \cup {CallLoop(n0) : n0 \in 0 .. MaxLoop}

\* A run starts from a source text (origin "source": Lexer::new), from a
\* token list (origin "tokens": Parser::new), from statements (origin
\* "compile": Compiler::compile and VM::new) or from a chunk (origin "raw":
\* VM::new).  Without a chunk from the compiler there is no VM and no step.
\* The language server starts from the tokens of a document (origin
\* "document": parse_for_diagnostics).  The VM with call frames starts from the
\* chunks of a program (origin "frames").
Init ==
    /\ \/ /\ origin = "frames"
          /\ fvm \in {FrameVM(functions) : functions \in FramePrograms}
          /\ analysis = NoAnalysis
          /\ lexer = LexerNew(<<>>)
          /\ parser = ParserNew(<<>>)
          /\ program = <<>>
          /\ chunk = NewChunk
          /\ status = "frames"
          /\ err = ""
       \/ /\ origin = "document"
          /\ fvm = NoFrameVM
          /\ analysis \in {AnalysisNew(tokens) : tokens \in Documents}
          /\ lexer = LexerNew(<<>>)
          /\ parser = ParserNew(<<>>)
          /\ program = <<>>
          /\ chunk = NewChunk
          /\ status = "analysing"
          /\ err = ""
       \/ /\ origin = "source"
          /\ fvm = NoFrameVM
          /\ analysis = NoAnalysis
          /\ lexer \in {LexerNew(source) : source \in Sources}
          /\ parser = ParserNew(<<>>)
          /\ program = <<>>
          /\ chunk = NewChunk
          /\ status = "lexing"
          /\ err = ""
       \/ /\ origin = "tokens"
          /\ fvm = NoFrameVM
          /\ analysis = NoAnalysis
          /\ lexer = LexerNew(<<>>)
          /\ parser \in {ParserNew(tokens) : tokens \in TokenLists}
          /\ program = <<>>
          /\ chunk = NewChunk
          /\ status = "parsing"
          /\ err = ""
       \/ /\ origin = "compile"
          /\ fvm = NoFrameVM
          /\ analysis = NoAnalysis
          /\ lexer = LexerNew(<<>>)
          /\ parser = ParserNew(<<>>)
          /\ program \in Programs
          /\ chunk = Compile(program).chunk
          /\ status = Outcome(Compile(program))
          /\ err = Compile(program).err
       \/ /\ origin = "raw"
          /\ fvm = NoFrameVM
          /\ analysis = NoAnalysis
          /\ lexer = LexerNew(<<>>)
          /\ parser = ParserNew(<<>>)
          /\ program = <<>>
          /\ chunk \in RawChunks
          /\ status = "running"
          /\ err = ""
    /\ ip = 0
    /\ stack = <<>>
    /\ globals = NoGlobals
    /\ out = <<>>

\* At for a loop that goes on to the next instruction after an error
AtAfterError(op) ==
    /\ status \in {"running", "error"}
    /\ ip < Len(chunk.code)
    /\ chunk.code[ip + 1].op = op

\* the run loop is at an instruction whose opcode is op
At(op) ==
    /\ status = "running"
    /\ ip < Len(chunk.code)
    /\ chunk.code[ip + 1].op = op

\* the instruction fetched by `self.chunk.code[self.ip].clone()`
Instr == chunk.code[ip + 1]

\* the arm ends and the loop goes on, with the stack now stk
Continue(stk) ==
    /\ ip' = ip + 1
    /\ stack' = stk
    /\ UNCHANGED <<aside, origin, program, chunk, globals, out, status, err>>

\* `return Err(msg)` or a failing `?`, with the stack now stk
Fail(msg, stk) ==
    /\ ip' = ip + 1
    /\ stack' = stk
    /\ status' = "error"
    /\ err' = msg
    /\ UNCHANGED <<aside, origin, program, chunk, globals, out>>

\* VM::pop's error
Underflow == "Stapel onderloop."

\* VM::peek's error
EmptyStack == "Stapel is leeg."

\* VM::peek's value
Top == stack[Len(stack)]

\* the stack after VM::pop
Popped == SubSeq(stack, 1, Len(stack) - 1)

\* VM::values_equal
ValuesEqual(a, b) ==
    CASE a.t = "Number" /\ b.t = "Number" -> a.num * b.den = b.num * a.den
      [] a.t = "Boolean" /\ b.t = "Boolean" -> a.b = b.b
      [] a.t = "Nil" /\ b.t = "Nil" -> TRUE
      [] OTHER -> FALSE

\* b, the operand popped first: `let b = self.pop()?`
Right == stack[Len(stack)]

\* a, the operand popped second: `let a = self.pop()?`
Left == stack[Len(stack) - 1]

\* the stack after both pops
Rest == SubSeq(stack, 1, Len(stack) - 2)

\* `let b = self.pop()?; let a = self.pop()?; match (a, b)` of the arms that
\* take two Numbers and push result: either pop fails on a stack that is
\* then empty
NumberArm(result, msg) ==
    IF Len(stack) < 2 THEN Fail(Underflow, <<>>)
    ELSE IF Left.t = "Number" /\ Right.t = "Number"
         THEN Continue(Append(Rest, result))
         ELSE Fail(msg, Rest)

\* `let b = self.pop()?; let a = self.pop()?; self.push(Value::Boolean(..))`
\* of Equal and NotEqual
EqualityArm(result) ==
    IF Len(stack) < 2 THEN Fail(Underflow, <<>>)
    ELSE Continue(Append(Rest, Boolean(result)))

ExecConstant ==
    /\ At("Constant")
    /\ Len(stack) < MaxStack
    /\ Instr.idx < Len(chunk.constants)
    /\ Continue(Append(stack, chunk.constants[Instr.idx + 1]))

ExecPop ==
    /\ At("Pop")
    /\ IF stack = <<>> THEN Fail(Underflow, <<>>) ELSE Continue(Popped)

\* ExecGetVar reading an unbound name as Nil
ExecGetVarNilWhenUnbound ==
    /\ At("GetVar")
    /\ Len(stack) < MaxStack
    /\ Continue(Append(stack, IF Instr.name \in DOMAIN globals
                              THEN globals[Instr.name] ELSE Nil))

\* ExecGetVar binding an unbound name to Nil when it is read
ExecGetVarDefinesUnbound ==
    /\ At("GetVar")
    /\ Len(stack) < MaxStack
    /\ IF Instr.name \in DOMAIN globals
       THEN Continue(Append(stack, globals[Instr.name]))
       ELSE /\ globals' = Insert(globals, Instr.name, Nil)
            /\ ip' = ip + 1
            /\ stack' = Append(stack, Nil)
            /\ UNCHANGED <<aside, origin, program, chunk, out, status, err>>

ExecGetVar ==
    /\ At("GetVar")
    /\ IF Instr.name \in DOMAIN globals
       THEN Len(stack) < MaxStack /\ Continue(Append(stack, globals[Instr.name]))
       ELSE Fail("Ongedefinieerde veranderlike: '" \o Instr.name \o "'", stack)

\* ExecSetVar taking the value off the stack with pop
ExecSetVarPops ==
    /\ At("SetVar")
    /\ IF stack = <<>> THEN Fail(Underflow, <<>>) /\ UNCHANGED globals
       ELSE /\ globals' = Insert(globals, Instr.name, Top)
            /\ ip' = ip + 1
            /\ stack' = Popped
            /\ UNCHANGED <<aside, origin, program, chunk, out, status, err>>

ExecSetVar ==
    /\ At("SetVar")
    /\ IF stack = <<>> THEN Fail(EmptyStack, stack) /\ UNCHANGED globals
       ELSE /\ globals' = Insert(globals, Instr.name, Top)
            /\ ip' = ip + 1
            /\ UNCHANGED <<aside, origin, program, chunk, stack, out, status, err>>

ExecAdd ==
    /\ At("Add")
    /\ NumberArm(NumAdd(Left, Right), "Operande moet nommers wees vir '+'.")

\* ExecSubtract with the operands taken in the order they are popped
ExecSubtractSwapped ==
    /\ At("Subtract")
    /\ NumberArm(NumSub(Right, Left), "Operande moet nommers wees vir '-'.")

ExecSubtract ==
    /\ At("Subtract")
    /\ NumberArm(NumSub(Left, Right), "Operande moet nommers wees vir '-'.")

ExecMultiply ==
    /\ At("Multiply")
    /\ NumberArm(NumMul(Left, Right), "Operande moet nommers wees vir '*'.")

\* ExecDivide without the test for zero: f64 division gives an infinity
ExecDivideNoZeroTest ==
    /\ At("Divide")
    /\ NumberArm(IF NumIsZero(Right) THEN [t |-> "Number", num |-> 1, den |-> 0]
                 ELSE NumDiv(Left, Right),
                 "Operande moet nommers wees vir '/'.")

ExecDivide ==
    /\ At("Divide")
    /\ IF Len(stack) >= 2 /\ Left.t = "Number" /\ Right.t = "Number" /\ NumIsZero(Right)
       THEN Fail("Deling deur nul.", Rest)
       ELSE NumberArm(NumDiv(Left, Right), "Operande moet nommers wees vir '/'.")

\* vm.rs has no arm for OpCode::Modulo; this one follows section 4.1 of the
\* specification: Number-typed, modulo by 0.0 fails
ExecModulo ==
    /\ At("Modulo")
    /\ IF Len(stack) >= 2 /\ Left.t = "Number" /\ Right.t = "Number" /\ NumIsZero(Right)
       THEN Fail("Modulo deur nul.", Rest)
       ELSE NumberArm(NumRem(Left, Right), "Operande moet nommers wees vir '%'.")

ExecNegate ==
    /\ At("Negate")
    /\ IF stack = <<>> THEN Fail(Underflow, <<>>)
       ELSE IF Top.t = "Number" THEN Continue(Append(Popped, NumNeg(Top)))
       ELSE Fail("Operand moet 'n nommer wees vir negasie.", Popped)

ExecEqual ==
    /\ At("Equal")
    /\ EqualityArm(ValuesEqual(Left, Right))

ExecNotEqual ==
    /\ At("NotEqual")
    /\ EqualityArm(~ValuesEqual(Left, Right))

ExecLess ==
    /\ At("Less")
    /\ NumberArm(Boolean(NumLess(Left, Right)), "Operande moet nommers wees vir '<'.")

ExecLessEqual ==
    /\ At("LessEqual")
    /\ NumberArm(Boolean(~NumLess(Right, Left)), "Operande moet nommers wees vir '<='.")

ExecGreater ==
    /\ At("Greater")
    /\ NumberArm(Boolean(NumLess(Right, Left)), "Operande moet nommers wees vir '>'.")

ExecGreaterEqual ==
    /\ At("GreaterEqual")
    /\ NumberArm(Boolean(~NumLess(Left, Right)), "Operande moet nommers wees vir '>='.")

ExecNot ==
    /\ At("Not")
    /\ IF stack = <<>> THEN Fail(Underflow, <<>>)
       ELSE Continue(Append(Popped, Boolean(~IsTruthy(Top))))

\* OpCode::And | OpCode::Or: the arm is empty
ExecAndOr ==
    /\ At("And") \/ At("Or")
    /\ Continue(stack)

\* println!("{}", value): out holds the values written, in order
ExecPrint ==
    /\ At("Print")
    /\ IF stack = <<>> THEN Fail(Underflow, <<>>) /\ UNCHANGED out
       ELSE /\ Len(out) < MaxOut
            /\ out' = Append(out, Top)
            /\ ip' = ip + 1
            /\ stack' = Popped
            /\ UNCHANGED <<aside, origin, program, chunk, globals, status, err>>

ExecJump ==
    /\ At("Jump")
    /\ ip' = Instr.target
    /\ UNCHANGED <<aside, origin, program, chunk, stack, globals, out, status, err>>

\* ExecJumpIfFalse taking the condition off the stack
ExecJumpIfFalsePops ==
    /\ At("JumpIfFalse")
    /\ IF stack = <<>> THEN Fail(Underflow, <<>>)
       ELSE /\ ip' = IF IsTruthy(Top) THEN ip + 1 ELSE Instr.target
            /\ stack' = Popped
            /\ UNCHANGED <<aside, origin, program, chunk, globals, out, status, err>>

ExecJumpIfFalse ==
    /\ At("JumpIfFalse")
    /\ IF stack = <<>> THEN Fail(EmptyStack, stack)
       ELSE /\ ip' = IF IsTruthy(Top) THEN ip + 1 ELSE Instr.target
            /\ UNCHANGED <<aside, origin, program, chunk, stack, globals, out, status, err>>

\* OpCode::Return => return Ok(())
ExecReturn ==
    /\ At("Return")
    /\ ip' = ip + 1
    /\ status' = "returned"
    /\ UNCHANGED <<aside, origin, program, chunk, stack, globals, out, err>>

\* if self.ip >= self.chunk.code.len() { return Ok(()) }
EndOfCode ==
    /\ status = "running"
    /\ ip >= Len(chunk.code)
    /\ status' = "end_of_code"
    /\ UNCHANGED <<aside, origin, program, chunk, ip, stack, globals, out, err>>

\* an iteration of the loop of Lexer::scan_tokens: one call of scan_token,
\* whose Err ends the scan
ScanToken ==
    /\ status = "lexing"
    /\ ~LexIsAtEnd(lexer)
    /\ LET r == ScanTokenOf(lexer)
       IN  /\ lexer' = r.lx
           /\ IF r.err = "" THEN UNCHANGED <<status, err>>
              ELSE status' = "lex_error" /\ err' = r.err
    /\ UNCHANGED <<elsewhere, parser, origin, program, chunk, ip, stack, globals, out>>

\* the end of Lexer::scan_tokens: the Eof token is pushed and the tokens go
\* to Parser::new
ScanEof ==
    /\ status = "lexing"
    /\ LexIsAtEnd(lexer)
    /\ LET tokens == Append(lexer.tokens, TokenNew(Plain("Eof"), "", lexer.line))
       IN  /\ lexer' = [lexer EXCEPT !.tokens = tokens]
           /\ parser' = ParserNew(tokens)
    /\ status' = "parsing"
    /\ UNCHANGED <<elsewhere, origin, program, chunk, ip, stack, globals, out, err>>

\* Parser::parse on the whole token list; its statements go to the compiler
ParseTokens ==
    /\ status = "parsing"
    /\ LET r == Parse(parser)
       IN  /\ parser' = r.p
           /\ IF r.p.stalled
              THEN status' = "parse_stalled" /\ UNCHANGED <<program, err>>
              ELSE IF r.err # ""
              THEN status' = "parse_error" /\ err' = r.err /\ UNCHANGED program
              ELSE status' = "compiling" /\ program' = r.v /\ UNCHANGED err
    /\ UNCHANGED <<elsewhere, lexer, origin, chunk, ip, stack, globals, out>>

\* Compiler::compile on the parsed statements, and VM::new on its chunk
CompileProgram ==
    /\ status = "compiling"
    /\ chunk' = Compile(program).chunk
    /\ status' = Outcome(Compile(program))
    /\ err' = Compile(program).err
    /\ UNCHANGED <<elsewhere, lexer, parser, origin, program, ip, stack, globals, out>>

(***************************************************************************)
(* The steps of the VM with call frames (spec.md sections 4.1 and 4.4)      *)
(***************************************************************************)
CurrentFrame(vm) == vm.frames[Len(vm.frames)]

CurrentChunk(vm) == vm.functions[CurrentFrame(vm).closure.function.chunk_index + 1]

\* the instruction at ip of the current frame
FrameInstr == CurrentChunk(fvm).code[CurrentFrame(fvm).ip + 1]

\* the VM is running and its next instruction is op
FrameAt(op) ==
    /\ fvm.status = "running"
    /\ fvm.frames # <<>>
    /\ CurrentFrame(fvm).ip < Len(CurrentChunk(fvm).code)
    /\ FrameInstr.op = op

\* fetch: ip is incremented before the instruction executes
Dispatch(vm) == [vm EXCEPT !.frames[Len(vm.frames)].ip = @ + 1]

FramePush(vm, value) == [vm EXCEPT !.stack = Append(@, value)]

FramePop(vm) == [vm EXCEPT !.stack = SubSeq(@, 1, Len(@) - 1)]

FrameTop(vm) == vm.stack[Len(vm.stack)]

FrameFail(vm, msg) == [vm EXCEPT !.status = "error", !.err = msg]

\* the value an upvalue cell stands for: the stack slot while it is open,
\* its own value once closed
ReadUpvalue(vm, cell) ==
    IF vm.cells[cell].open THEN vm.stack[vm.cells[cell].slot + 1]
    ELSE vm.cells[cell].value

WriteUpvalue(vm, cell, value) ==
    IF vm.cells[cell].open
    THEN [vm EXCEPT !.stack[vm.cells[cell].slot + 1] = value]
    ELSE [vm EXCEPT !.cells[cell] = Closed(value)]

\* the registry with the cell added, kept sorted by stack index
RECURSIVE Register(_, _, _)
Register(vm, registry, cell) ==
    IF registry = <<>> THEN <<cell>>
    ELSE IF vm.cells[Head(registry)].slot > vm.cells[cell].slot
    THEN <<cell>> \o registry
    ELSE <<Head(registry)>> \o Register(vm, Tail(registry), cell)

\* an upvalue for a stack slot that always makes a new cell
CaptureLocalAfresh(vm, slot) ==
    LET cell == Len(vm.cells) + 1
        made == [vm EXCEPT !.cells = Append(@, Open(slot))]
    IN  [vm |-> [made EXCEPT !.open_upvalues = Register(made, @, cell)],
         cell |-> cell]

\* the open upvalue for a stack slot: the registered one if there is one,
\* else a new one, which is registered
CaptureLocal(vm, slot) ==
    LET registered == {k \in DOMAIN vm.open_upvalues :
                          vm.cells[vm.open_upvalues[k]].slot = slot}
        cell == Len(vm.cells) + 1
        made == [vm EXCEPT !.cells = Append(@, Open(slot))]
    IN  IF registered # {}
        THEN [vm |-> vm, cell |-> vm.open_upvalues[CHOOSE k \in registered : TRUE]]
        ELSE [vm |-> [made EXCEPT !.open_upvalues = Register(made, @, cell)],
              cell |-> cell]

\* the upvalues of a new closure, one for each descriptor: bound holds those
\* of the descriptors already dealt with
RECURSIVE BindUpvalues(_, _, _)
BindUpvalues(vm, descriptors, bound) ==
    IF descriptors = <<>> THEN [vm |-> vm, upvalues |-> bound]
    ELSE LET d == Head(descriptors)
             captured == CaptureLocal(vm, CurrentFrame(vm).base + d.index)
         IN  IF d.is_local
             THEN BindUpvalues(captured.vm, Tail(descriptors), Append(bound, captured.cell))
             ELSE BindUpvalues(vm, Tail(descriptors),
                               Append(bound, CurrentFrame(vm).closure.upvalues[d.index + 1]))

\* every open upvalue at a stack index >= threshold becomes Closed with the
\* value of its slot and leaves the registry
CloseUpvalues(vm, threshold) ==
    LET closing(cell) == vm.cells[cell].open /\ vm.cells[cell].slot >= threshold
    IN  [vm EXCEPT
            !.cells = [cell \in DOMAIN vm.cells |->
                          IF closing(cell) THEN Closed(vm.stack[vm.cells[cell].slot + 1])
                          ELSE vm.cells[cell]],
            !.open_upvalues = SelectSeq(@, LAMBDA cell : vm.cells[cell].slot < threshold)]

\* what the steps of this VM leave alone
legacy == <<origin, lexer, parser, program, chunk, ip, stack, globals, out, status, err,
            analysis>>

FrameConstant ==
    /\ FrameAt("Constant")
    /\ fvm' = FramePush(Dispatch(fvm), CurrentChunk(fvm).constants[FrameInstr.idx + 1])
    /\ UNCHANGED legacy

FramePopTop ==
    /\ FrameAt("Pop")
    /\ fvm' = IF fvm.stack = <<>> THEN FrameFail(Dispatch(fvm), Underflow)
              ELSE FramePop(Dispatch(fvm))
    /\ UNCHANGED legacy

\* Add, Subtract and Equal on the two topmost values
FrameBinary ==
    /\ \/ FrameAt("Add")
       \/ FrameAt("Subtract")
       \/ FrameAt("Equal")
    /\ LET d == Dispatch(fvm)
           n == Len(fvm.stack)
           b == fvm.stack[n]
           a == fvm.stack[n - 1]
           rest == [d EXCEPT !.stack = SubSeq(@, 1, n - 2)]
       IN  fvm' = IF n < 2 THEN FrameFail(d, Underflow)
                  ELSE IF FrameInstr.op = "Equal" THEN FramePush(rest, Boolean(ValueEq(a, b)))
                  ELSE IF a.t # "Number" \/ b.t # "Number"
                  THEN FrameFail(rest, "operands must be numbers")
                  ELSE IF FrameInstr.op = "Add" THEN FramePush(rest, NumAdd(a, b))
                  ELSE FramePush(rest, NumSub(a, b))
    /\ UNCHANGED legacy

FramePrint ==
    /\ FrameAt("Print")
    /\ fvm' = IF fvm.stack = <<>> THEN FrameFail(Dispatch(fvm), Underflow)
              ELSE [FramePop(Dispatch(fvm)) EXCEPT !.out = Append(@, FrameTop(fvm))]
    /\ UNCHANGED legacy

FrameJumpIfFalse ==
    /\ FrameAt("JumpIfFalse")
    /\ fvm' = IF fvm.stack = <<>> THEN FrameFail(Dispatch(fvm), EmptyStack)
              ELSE IF IsTruthy(FrameTop(fvm)) THEN Dispatch(fvm)
              ELSE [fvm EXCEPT !.frames[Len(fvm.frames)].ip = FrameInstr.target]
    /\ UNCHANGED legacy

FrameDefineGlobal ==
    /\ FrameAt("DefineGlobal")
    /\ fvm' = IF fvm.stack = <<>> THEN FrameFail(Dispatch(fvm), Underflow)
              ELSE [FramePop(Dispatch(fvm)) EXCEPT
                       !.globals = Insert(@, FrameInstr.name, FrameTop(fvm))]
    /\ UNCHANGED legacy

FrameGetGlobal ==
    /\ FrameAt("GetGlobal")
    /\ fvm' = IF FrameInstr.name \in DOMAIN fvm.globals
              THEN FramePush(Dispatch(fvm), fvm.globals[FrameInstr.name])
              ELSE FrameFail(Dispatch(fvm), "undefined global")
    /\ UNCHANGED legacy

FrameGetLocal ==
    /\ FrameAt("GetLocal")
    /\ fvm' = FramePush(Dispatch(fvm),
                        fvm.stack[CurrentFrame(fvm).base + FrameInstr.slot + 1])
    /\ UNCHANGED legacy

FrameGetUpvalue ==
    /\ FrameAt("GetUpvalue")
    /\ fvm' = FramePush(Dispatch(fvm),
                  ReadUpvalue(fvm, CurrentFrame(fvm).closure.upvalues[FrameInstr.index + 1]))
    /\ UNCHANGED legacy

\* the value stays on the stack
FrameSetUpvalue ==
    /\ FrameAt("SetUpvalue")
    /\ fvm' = IF fvm.stack = <<>> THEN FrameFail(Dispatch(fvm), EmptyStack)
              ELSE WriteUpvalue(Dispatch(fvm),
                                CurrentFrame(fvm).closure.upvalues[FrameInstr.index + 1],
                                FrameTop(fvm))
    /\ UNCHANGED legacy

FrameClosure ==
    /\ FrameAt("Closure")
    /\ LET function == CurrentChunk(fvm).constants[FrameInstr.idx + 1]
           bound == BindUpvalues(Dispatch(fvm), FrameInstr.descriptors, <<>>)
       IN  fvm' = FramePush([bound.vm EXCEPT !.allocated = @ + 1],
                            ClosureValue(fvm.allocated, function, bound.upvalues))
    /\ UNCHANGED legacy

FrameCloseUpvalue ==
    /\ FrameAt("CloseUpvalue")
    /\ fvm' = IF fvm.stack = <<>> THEN FrameFail(Dispatch(fvm), Underflow)
              ELSE FramePop(CloseUpvalues(Dispatch(fvm), Len(fvm.stack) - 1))
    /\ UNCHANGED legacy

\* the callee of a call with n arguments, below them on the stack
Callee(vm, n) == vm.stack[Len(vm.stack) - n]

\* what is wrong with the call, "" if nothing
CallError(vm, n) ==
    IF Len(vm.stack) < n + 1 THEN Underflow
    ELSE IF Callee(vm, n).t # "Closure" THEN "not callable"
    ELSE IF Callee(vm, n).function.arity # n THEN "arity mismatch"
    ELSE ""

\* a tail call that pushes a frame as Call does
TailCallPushesFrame(vm, n) ==
    [vm EXCEPT !.frames = Append(@, Frame(Callee(vm, n), 0, Len(vm.stack) - n))]

\* TailCall on a closure: the upvalues of the frame are closed, callee and
\* arguments move down to base-1 .. base+n-1, and the frame goes on with the
\* callee from ip 0
TailCallClosure(vm, n) ==
    LET base == CurrentFrame(vm).base
        closed == CloseUpvalues(vm, base)
    IN  [closed EXCEPT
            !.stack = SubSeq(@, 1, base - 1) \o SubSeq(@, Len(@) - n, Len(@)),
            !.frames[Len(vm.frames)] = Frame(Callee(vm, n), 0, base)]

FrameCall ==
    /\ FrameAt("Call")
    /\ LET n == FrameInstr.arg_count
           d == Dispatch(fvm)
       IN  fvm' = IF CallError(fvm, n) # "" THEN FrameFail(d, CallError(fvm, n))
                  ELSE [d EXCEPT !.frames =
                           Append(@, Frame(Callee(fvm, n), 0, Len(fvm.stack) - n))]
    /\ UNCHANGED legacy

\* TailCall stands in return position of a function body, whose frame has
\* the slot of its callee below its base
FrameTailCall ==
    /\ FrameAt("TailCall")
    /\ CurrentFrame(fvm).base >= 1
    /\ LET n == FrameInstr.arg_count
           d == Dispatch(fvm)
       IN  fvm' = IF CallError(fvm, n) # "" THEN FrameFail(d, CallError(fvm, n))
                  ELSE TailCallClosure(d, n)
    /\ UNCHANGED legacy

FrameReturn ==
    /\ FrameAt("Return")
    /\ LET d == Dispatch(fvm)
           base == CurrentFrame(fvm).base
           closed == CloseUpvalues(d, base)
           unwound == [closed EXCEPT !.frames = SubSeq(@, 1, Len(@) - 1)]
       IN  fvm' = IF fvm.stack = <<>> THEN FrameFail(d, Underflow)
                  ELSE IF unwound.frames = <<>>
                  THEN [unwound EXCEPT !.status = "returned",
                                       !.stack = SubSeq(@, 1, Len(@) - 1)]
                  ELSE [unwound EXCEPT
                           !.stack = Append(SubSeq(@, 1, base - 1), FrameTop(fvm))]
    /\ UNCHANGED legacy

Next ==
    \/ FrameConstant
    \/ FramePopTop
    \/ FrameBinary
    \/ FramePrint
    \/ FrameJumpIfFalse
    \/ FrameDefineGlobal
    \/ FrameGetGlobal
    \/ FrameGetLocal
    \/ FrameGetUpvalue
    \/ FrameSetUpvalue
    \/ FrameClosure
    \/ FrameCloseUpvalue
    \/ FrameCall
    \/ FrameTailCall
    \/ FrameReturn
    \/ FirstPass
    \/ AnalyseToken
    \/ ReportUnclosed
    \/ ScanToken
    \/ ScanEof
    \/ ParseTokens
    \/ CompileProgram
    \/ ExecConstant
    \/ ExecPop
    \/ ExecGetVar
    \/ ExecSetVar
    \/ ExecAdd
    \/ ExecSubtract
    \/ ExecMultiply
    \/ ExecDivide
    \/ ExecModulo
    \/ ExecNegate
    \/ ExecEqual
    \/ ExecNotEqual
    \/ ExecLess
    \/ ExecLessEqual
    \/ ExecGreater
    \/ ExecGreaterEqual
    \/ ExecNot
    \/ ExecAndOr
    \/ ExecPrint
    \/ ExecJump
    \/ ExecJumpIfFalse
    \/ ExecReturn
    \/ EndOfCode

Spec == Init /\ [][Next]_vars

(***************************************************************************)
(* The claims                                                              *)
(***************************************************************************)
\* C1: whenever a compiled program has run to completion, that is the
\* top-level Return has halted the run, the value stack is empty.
C1_StackEmptyAtReturn ==
    (origin = "compile" /\ status = "returned") => stack = <<>>

\* a block whose statements are expression and print statements only
NeutralBlock(b) ==
    /\ b.k = "Block"
    /\ \A i \in 1..Len(b.statements) : b.statements[i].k \in {"Expression", "Print"}

\* the program is one if statement whose branches are stack-neutral
IfProgram ==
    /\ origin = "compile"
    /\ Len(program) = 1
    /\ program[1].k = "If"
    /\ NeutralBlock(program[1].then_branch)
    /\ \A i \in 1..Len(program[1].else_branch) : NeutralBlock(program[1].else_branch[i])

\* C2: in a program that is one if statement with stack-neutral branches the
\* condition is popped exactly once on the path taken: no Pop finds the
\* stack empty, and after the statement (at the Return and after it) the
\* stack is as deep as before the condition was evaluated, which is empty.
C2_IfPopsConditionOnce ==
    IfProgram =>
        /\ err # Underflow
        /\ ip >= Len(chunk.code) - 1 => stack = <<>>

\* C3: when a program that is one block statement has run to the end of the
\* block (the run is at the final Return or past it), the stack is as deep
\* as at block entry, which is empty, however many variables the block
\* declared.
C3_BlockLeavesNoLocal ==
    (/\ origin = "compile"
     /\ Len(program) = 1
     /\ program[1].k = "Block"
     /\ ip >= Len(chunk.code) - 1) => stack = <<>>

\* the program starts with the expression statement `n = literal`
StartsWithAssignment ==
    /\ origin = "compile"
    /\ Len(program) >= 1
    /\ program[1].k = "Expression"
    /\ program[1].expr.k = "Assign"
    /\ program[1].expr.value.k = "Literal"

\* C4: in a program that starts by assigning to a name no declaration has
\* defined, the assignment fails: the run is in error once the store has
\* executed (ip past Constant and SetVar), and the name is never bound.
C4_AssignUndefinedFails ==
    StartsWithAssignment =>
        /\ program[1].expr.name \notin DOMAIN globals
        /\ ip >= 2 => status = "error"

\* C5: reading a name with no binding in globals fails with the message
\* "Ongedefinieerde veranderlike: '<name>'", pushes nothing (stack, globals
\* and output stay as they were) and ends the run: no step follows an error.
C5_UndefinedReadFails ==
    [][/\ (At("GetVar") /\ Instr.name \notin DOMAIN globals) =>
            /\ status' = "error"
            /\ err' = "Ongedefinieerde veranderlike: '" \o Instr.name \o "'"
            /\ stack' = stack
            /\ globals' = globals
            /\ out' = out
       /\ status = "error" => UNCHANGED vars]_vars

\* `druk(x)` has failed on the read of x
C5_Witness ==
    /\ program = <<PrintStmt(X)>>
    /\ status = "error"
    /\ err = "Ongedefinieerde veranderlike: 'x'"
    /\ stack = <<>>
    /\ out = <<>>

\* C6: Equal pushes the Boolean that Value's equality gives for the two
\* operands, and NotEqual its negation, for every pair of values.
C6_EqualIsValueEquality ==
    [][/\ (At("Equal") /\ Len(stack) >= 2) =>
            stack' = Append(Rest, Boolean(ValueEq(Left, Right)))
       /\ (At("NotEqual") /\ Len(stack) >= 2) =>
            stack' = Append(Rest, Boolean(~ValueEq(Left, Right)))]_vars

\* C7: Add on two strings succeeds and pushes left followed by right; Add
\* fails only when the operands are neither two Numbers nor two strings.
C7_AddConcatenatesStrings ==
    [][(At("Add") /\ Len(stack) >= 2) =>
            /\ (Left.t = "String" /\ Right.t = "String") =>
                    /\ status' = "running"
                    /\ stack' = Append(Rest, String(Left.s \o Right.s))
            /\ status' = "error" =>
                    /\ ~(Left.t = "Number" /\ Right.t = "Number")
                    /\ ~(Left.t = "String" /\ Right.t = "String")]_vars

\* the messages of a division-by-zero error
DivisionByZero == {"Deling deur nul.", "Modulo deur nul."}

\* C8 as stated: Divide or Modulo whose divisor is the Number zero fails with
\* a division-by-zero error and pushes nothing, whatever the dividend is;
\* with a Number divisor that is not zero the instruction succeeds.
C8_ZeroDivisorFails ==
    [][((At("Divide") \/ At("Modulo")) /\ Len(stack) >= 2 /\ Right.t = "Number") =>
            IF NumIsZero(Right)
            THEN status' = "error" /\ err' \in DivisionByZero /\ stack' = Rest
            ELSE status' = "running" /\ Len(stack') = Len(Rest) + 1]_vars

\* C8 amended: Divide or Modulo on two Numbers fails with a division-by-zero
\* error, pushing nothing and ending the run, when the divisor is zero, and
\* succeeds with one result when it is not.
C8_ZeroDivisorFailsOnNumbers ==
    [][/\ ((At("Divide") \/ At("Modulo")) /\ Len(stack) >= 2
            /\ Left.t = "Number" /\ Right.t = "Number") =>
            IF NumIsZero(Right)
            THEN status' = "error" /\ err' \in DivisionByZero /\ stack' = Rest
            ELSE status' = "running" /\ Len(stack') = Len(Rest) + 1
       /\ status = "error" => UNCHANGED vars]_vars

\* 1 / 0 has failed with nothing pushed
C8_Witness ==
    /\ origin = "raw"
    /\ chunk.code = <<Constant(0), Constant(1), Op("Divide")>>
    /\ chunk.constants = <<Number(1, 1), Number(0, 1)>>
    /\ status = "error"
    /\ err = "Deling deur nul."
    /\ stack = <<>>

\* the arms C9 is about
NumberOnlyOps ==
    {"Less", "LessEqual", "Greater", "GreaterEqual", "Subtract", "Multiply",
     "Divide"}

\* the type-mismatch message of each of those arms
TypeMismatch(op) ==
    CASE op = "Less" -> "Operande moet nommers wees vir '<'."
      [] op = "LessEqual" -> "Operande moet nommers wees vir '<='."
      [] op = "Greater" -> "Operande moet nommers wees vir '>'."
      [] op = "GreaterEqual" -> "Operande moet nommers wees vir '>='."
      [] op = "Subtract" -> "Operande moet nommers wees vir '-'."
      [] op = "Multiply" -> "Operande moet nommers wees vir '*'."
      [] op = "Divide" -> "Operande moet nommers wees vir '/'."
      [] op = "Negate" -> "Operand moet 'n nommer wees vir negasie."

\* left op right on two Numbers
Applied(op, a, b) ==
    CASE op = "Less" -> Boolean(a.num * b.den < b.num * a.den)
      [] op = "LessEqual" -> Boolean(a.num * b.den <= b.num * a.den)
      [] op = "Greater" -> Boolean(a.num * b.den > b.num * a.den)
      [] op = "GreaterEqual" -> Boolean(a.num * b.den >= b.num * a.den)
      [] op = "Subtract" -> Number(a.num * b.den - b.num * a.den, a.den * b.den)
      [] op = "Multiply" -> Number(a.num * b.num, a.den * b.den)
      [] op = "Divide" -> Number(a.num * b.den, a.den * b.num)

\* what C9 says of a step of the binary arm op, Divide by zero set aside
\* when exceptZero
BinaryArmStep(op, exceptZero) ==
    (At(op) /\ Len(stack) >= 2) =>
        IF Left.t = "Number" /\ Right.t = "Number"
        THEN \/ exceptZero /\ op = "Divide" /\ NumIsZero(Right)
             \/ /\ status' = "running"
                /\ stack' = Append(Rest, Applied(op, Left, Right))
        ELSE status' = "error" /\ err' = TypeMismatch(op) /\ stack' = Rest

\* what C9 says of a step of Negate
NegateStep ==
    (At("Negate") /\ stack # <<>>) =>
        IF Right.t = "Number"
        THEN /\ status' = "running"
             /\ stack' = Append(Popped, Number(-Right.num, Right.den))
        ELSE status' = "error" /\ err' = TypeMismatch("Negate") /\ stack' = Popped

\* C9 as stated: Less, LessEqual, Greater, GreaterEqual, Subtract, Multiply,
\* Divide and Negate fail with their type-mismatch error, pushing nothing,
\* when an operand is not a Number, and on Numbers always push exactly one
\* result, left op right with left the operand pushed first.
C9_NumberArms ==
    [][NegateStep /\ \A op \in NumberOnlyOps : BinaryArmStep(op, FALSE)]_vars

\* C9 amended: the same, except that Divide on two Numbers with a zero
\* divisor pushes no result (it fails with the division-by-zero error).
C9_NumberArmsExceptZeroDivisor ==
    [][NegateStep /\ \A op \in NumberOnlyOps : BinaryArmStep(op, TRUE)]_vars

\* `druk(0 - 1)` has printed -1, and not 1
C9_Witness ==
    /\ program = <<PrintStmt(Binary(Zero, "Minus", One))>>
    /\ status = "returned"
    /\ out = <<Number(-1, 1)>>

\* the values C10 lists as falsy
Falsy == {Nil, Boolean(FALSE), Number(0, 1), String(""), List(<<>>)}

\* C10: is_truthy is false exactly for Nil, false, zero, the empty String
\* and the empty List: Not, which pushes the negation of is_truthy of its
\* operand, pushes true exactly for those, and JumpIfFalse jumps exactly on
\* those.
C10_TruthinessTable ==
    [][/\ (At("Not") /\ stack # <<>>) =>
            stack' = Append(Popped, Boolean(Right \in Falsy))
       /\ (At("JumpIfFalse") /\ stack # <<>>) =>
            ip' = IF Right \in Falsy THEN Instr.target ELSE ip + 1]_vars

\* Not has pushed false for an ADT instance without fields
C10_Witness ==
    /\ origin = "raw"
    /\ chunk.code = <<Constant(0), Op("Not")>>
    /\ chunk.constants = <<Adt("Opsie", "Geen", <<>>)>>
    /\ ip = 2
    /\ stack = <<Boolean(FALSE)>>

\* the number of instructions compile_expr emits for expr
ExprLen(expr) == Len(CompileExpr(NewCompiler, expr).chunk.code)

\* the run is that of `druk(a op b)` with a a literal
LogicalProgram(op) ==
    /\ origin = "compile"
    /\ Len(program) = 1
    /\ program[1].k = "Print"
    /\ program[1].expr.k = "Binary"
    /\ program[1].expr.operator.token_type = op
    /\ program[1].expr.left.k = "Literal"

\* the stack that holds the value of the literal or variable expr and
\* nothing else; only a literal has a value when no variable is defined
Only(expr) == IF expr.k = "Literal" THEN <<LiteralValue(expr.lit)>> ELSE <<>>

\* C11: the code of a && b leaves exactly one value above the depth it was
\* entered at: the value of a when a is falsy, and then no instruction of b
\* executes, and the value of b when a is truthy.
C11_AndShortCircuits ==
    LogicalProgram("And") =>
        LET a == program[1].expr.left
            b == program[1].expr.right
            first_of_b == ExprLen(a) + 2
            end == first_of_b + ExprLen(b)
            a_falsy == LiteralValue(a.lit) \in Falsy
        IN  /\ (status = "running" /\ ip >= first_of_b /\ ip < end) => ~a_falsy
            /\ (status = "running" /\ ip = end) =>
                    /\ stack = IF a_falsy THEN Only(a) ELSE Only(b)
                    /\ Len(stack) = 1
            /\ status = "returned" =>
                    out = IF a_falsy THEN Only(a) ELSE Only(b)

\* `druk(vals && x)` has printed vals although x is undefined
C11_Witness ==
    /\ program = <<PrintStmt(Binary(Vals, "And", X))>>
    /\ status = "returned"
    /\ out = <<Boolean(FALSE)>>

\* C12: the code of a || b leaves exactly one value above the depth it was
\* entered at: the value of a when a is truthy, and then no instruction of b
\* executes, and the value of b when a is falsy.
C12_OrShortCircuits ==
    LogicalProgram("Or") =>
        LET a == program[1].expr.left
            b == program[1].expr.right
            first_of_b == ExprLen(a) + 3
            end == first_of_b + ExprLen(b)
            a_falsy == LiteralValue(a.lit) \in Falsy
        IN  /\ (status = "running" /\ ip >= first_of_b - 1 /\ ip < end) => a_falsy
            /\ (status = "running" /\ ip = end) =>
                    /\ stack = IF a_falsy THEN Only(b) ELSE Only(a)
                    /\ Len(stack) = 1
            /\ status = "returned" =>
                    out = IF a_falsy THEN Only(b) ELSE Only(a)

\* `druk(1 || x)` has printed 1 although x is undefined
C12_Witness ==
    /\ program = <<PrintStmt(Binary(One, "Or", X))>>
    /\ status = "returned"
    /\ out = <<Number(1, 1)>>

\* terwyl (x < 2) { x = x + 1 }
CountingLoop == While(Binary(X, "Less", Two), Block(<<Expression(Increment)>>))

\* the run is that of `stel x = 0` or `stel x = 1` followed by CountingLoop;
\* the declaration leaves its value on the stack, so the loop is entered at
\* depth 1
CountingProgram ==
    /\ origin = "compile"
    /\ Len(program) = 2
    /\ program[1] \in {VarDecl("x", Zero), VarDecl("x", One)}
    /\ program[2] = CountingLoop

\* the run is that of one loop whose condition is waar or vals and whose
\* body is stack-neutral
LiteralLoopProgram ==
    /\ origin = "compile"
    /\ Len(program) = 1
    /\ program[1].k = "While"
    /\ program[1].condition \in {Waar, Vals}
    /\ NeutralBlock(program[1].body)

\* C13: in a compiled loop the condition is evaluated before every
\* iteration, the body runs once for each truthy evaluation, the loop is
\* left at the first falsy one, and every evaluation's value is popped once:
\* with a stack-neutral body the depth is the same at every evaluation and
\* after the loop as before it.  The counting loop is entered with x < 2 and
\* adds 1 per iteration, so it is left with x = 2 exactly.
C13_WhileLoop ==
    /\ CountingProgram =>
          LET loop_start == Len(CompileStmts(NewCompiler, <<program[1]>>).chunk.code)
              exit_jump == loop_start + ExprLen(program[2].condition)
              body_start == exit_jump + 2
              after == Len(chunk.code) - 1
              x == globals["x"]
          IN  /\ status # "error"
              /\ (status = "running" /\ ip = loop_start) => Len(stack) = 1
              /\ (status = "running" /\ ip = exit_jump) =>
                      stack[2] = Boolean(NumLess(x, Number(2, 1)))
              /\ (status = "running" /\ ip = body_start) =>
                      NumLess(x, Number(2, 1)) /\ Len(stack) = 1
              /\ (ip >= loop_start /\ ip < after) => ~NumLess(Number(2, 1), x)
              /\ ip >= after => x = Number(2, 1) /\ Len(stack) = 1
    /\ LiteralLoopProgram =>
          LET truthy == program[1].condition = Waar
              after == Len(chunk.code) - 1
          IN  /\ status # "error"
              /\ (status = "running" /\ ip = 0) => stack = <<>>
              /\ (status = "running" /\ ip = 2) => truthy /\ stack = <<Boolean(TRUE)>>
              /\ (status = "running" /\ ip = after - 1) =>
                      ~truthy /\ stack = <<Boolean(FALSE)>>
              /\ ip >= after => ~truthy /\ stack = <<>> /\ out = <<>>

\* `stel x = 0` and the counting loop have returned after two iterations
C13_Witness ==
    /\ program = <<VarDecl("x", Zero), CountingLoop>>
    /\ status = "returned"
    /\ globals["x"] = Number(2, 1)
    /\ Len(stack) = 1

\* C14: JumpIfFalse(t) at index i leaves the stack and the globals as they
\* are; after it ip is t when the top of the stack is falsy and i + 1 when
\* it is truthy; on an empty stack it fails with the empty-stack error and
\* does not jump.
C14_JumpIfFalsePeeks ==
    [][At("JumpIfFalse") =>
          /\ stack' = stack
          /\ globals' = globals
          /\ out' = out
          /\ IF stack = <<>>
             THEN status' = "error" /\ err' = "Stapel is leeg." /\ ip' = ip + 1
             ELSE /\ status' = "running"
                  /\ ip' = IF IsTruthy(stack[Len(stack)]) THEN ip + 1 ELSE Instr.target]_vars

\* JumpIfFalse(3) at index 1 has jumped on the empty String and left it on
\* the stack
C14_Witness ==
    /\ origin = "raw"
    /\ chunk.code = <<Constant(0), JumpIfFalse(3)>>
    /\ chunk.constants = <<String("")>>
    /\ ip = 3
    /\ stack = <<String("")>>
    /\ status = "running"

\* C15: once an instruction has failed the run has ended with that error: no
\* instruction executes after it, so nothing more is printed and no global
\* changes; the failing instruction itself prints nothing, changes no
\* global and leaves what was printed before it printed.
C15_FailureEndsRun ==
    [][/\ status = "error" => UNCHANGED vars
       /\ (status = "running" /\ status' = "error") =>
              /\ err' # ""
              /\ out' = out
              /\ globals' = globals]_vars

\* `{ druk(1) }  druk(x)` has failed on x with the 1 still printed
C15_Witness ==
    /\ program = <<Block(<<PrintStmt(One)>>), PrintStmt(X)>>
    /\ status = "error"
    /\ err = "Ongedefinieerde veranderlike: 'x'"
    /\ out = <<Number(1, 1)>>

\* C16: a run of a chunk the compiler produced halts only by an instruction
\* failing or by executing Return: while it runs ip is below the length of
\* the code, and the end-of-code exit of the run loop is never taken.
C16_HaltsByErrorOrReturn ==
    origin = "compile" =>
        /\ status \in {"running", "error", "returned"}
        /\ status = "running" => ip < Len(chunk.code)
        /\ status = "returned" =>
              ip = Len(chunk.code) /\ chunk.code[ip] = Op("Return")

\* the exit jump of `terwyl (vals) { }` has led to the Pop before the final
\* Return, and the run has returned
C16_Witness ==
    /\ program = <<While(Vals, Block(<<>>))>>
    /\ status = "returned"
    /\ ip = Len(chunk.code)

\* C17: only the instruction that defines or sets a variable (SetVar)
\* changes the globals: a step of any other instruction, successful or
\* failing, leaves every binding as it is, and so does a SetVar that fails;
\* a SetVar that succeeds changes the binding of its own name only.
C17_OnlySetVarWritesGlobals ==
    [][/\ globals' # globals => At("SetVar") /\ status' = "running"
       /\ \A n \in DOMAIN globals :
              /\ n \in DOMAIN globals'
              /\ globals'[n] # globals[n] => At("SetVar") /\ Instr.name = n]_vars

\* `stel x = 1  druk(x)` has returned: GetVar, Print and Return have run
\* with x bound, and x is still 1
C17_Witness ==
    /\ program = <<VarDecl("x", One), PrintStmt(X)>>
    /\ status = "returned"
    /\ out = <<Number(1, 1)>>
    /\ globals = Insert(NoGlobals, "x", Number(1, 1))

\* the state VM::new leaves, with the chunk as the compiler or the hand
\* handed it over; no step changes the chunk
Fresh == ip = 0 /\ stack = <<>> /\ globals = NoGlobals /\ out = <<>>

\* C18: patch_jump(offset, target) on a Jump or JumpIfFalse at offset
\* changes the target of that instruction and nothing else, neither another
\* instruction nor the constant pool; on any other opcode it panics and the
\* chunk stays as it was; and no compilation panics, the compiler calling it
\* only where it emitted a jump.  Checked on every chunk, at every offset,
\* with the targets 0 and the length of the code.
C18_PatchJumpPatchesJumpsOnly ==
    /\ status # "panicked"
    /\ Fresh =>
          \A offset \in 0..(Len(chunk.code) - 1) : \A target \in {0, Len(chunk.code)} :
              LET r == PatchJump(chunk, offset, target)
                  old == chunk.code[offset + 1]
              IN  IF old.op \in {"Jump", "JumpIfFalse"}
                  THEN /\ ~IsPanic(r)
                       /\ r.constants = chunk.constants
                       /\ Len(r.code) = Len(chunk.code)
                       /\ \A i \in 1..Len(chunk.code) :
                              i # offset + 1 => r.code[i] = chunk.code[i]
                       /\ r.code[offset + 1].op = old.op
                       /\ r.code[offset + 1].target = target
                  ELSE /\ IsPanic(r)
                       /\ Patch([NewCompiler EXCEPT !.chunk = chunk], offset, target).chunk
                              = chunk

\* `as (waar) { } anders { }` has compiled, its JumpIfFalse patched to the
\* Pop of the else branch and its Jump to the Return
C18_Witness ==
    /\ program = <<If(Waar, Block(<<>>), <<Block(<<>>)>>)>>
    /\ Fresh
    /\ status = "running"
    /\ chunk.code = <<Constant(0), JumpIfFalse(4), Op("Pop"), Jump(5), Op("Pop"),
                      Op("Return")>>

\* the names a chain of assignments a = b = ... = e assigns
RECURSIVE AssignedNames(_)
AssignedNames(expr) ==
    IF expr.k = "Assign" THEN {expr.name} \cup AssignedNames(expr.value) ELSE {}

\* the e of a chain of assignments a = b = ... = e
RECURSIVE AssignedExpr(_)
AssignedExpr(expr) == IF expr.k = "Assign" THEN AssignedExpr(expr.value) ELSE expr

\* the run is that of one expression statement that is a chain of
\* assignments of a literal
AssignProgram ==
    /\ origin = "compile"
    /\ Len(program) = 1
    /\ program[1].k = "Expression"
    /\ program[1].expr.k = "Assign"
    /\ AssignedExpr(program[1].expr).k = "Literal"

\* the run is that of `stel x = 0` or `stel x = 1` followed by `x = x + 1`;
\* the declaration leaves its value on the stack, so the statement starts
\* at depth 1
IncrementProgram ==
    /\ origin = "compile"
    /\ Len(program) = 2
    /\ program[1] \in {VarDecl("x", Zero), VarDecl("x", One)}
    /\ program[2] = Expression(Increment)

\* C19: the value of the assignment expression x = e is the value assigned:
\* when its code has run, x is bound to the value of e and that value is on
\* top of the stack, so a = b = e binds a and b to it, and an assignment
\* that is an expression statement leaves the stack at the depth it found.
C19_AssignmentIsExpression ==
    /\ AssignProgram =>
          LET e == program[1].expr
              v == LiteralValue(AssignedExpr(e).lit)
              end == ExprLen(e)
              bound == \A n \in AssignedNames(e) :
                          n \in DOMAIN globals /\ globals[n] = v
          IN  /\ status # "error"
              /\ ip = end => stack = <<v>> /\ bound
              /\ ip > end => stack = <<>> /\ bound
    /\ IncrementProgram =>
          LET start == Len(CompileStmts(NewCompiler, <<program[1]>>).chunk.code)
              end == start + ExprLen(Increment)
              v == NumAdd(LiteralValue(program[1].initializer.lit), Number(1, 1))
          IN  /\ status # "error"
              /\ ip = start => Len(stack) = 1
              /\ ip = end => Len(stack) = 2 /\ stack[2] = v /\ globals["x"] = v
              /\ ip > end => Len(stack) = 1 /\ globals["x"] = v

\* `x = y = 1` as a statement has returned with x and y bound to 1 and
\* nothing on the stack
C19_Witness ==
    /\ program = <<Expression(Assign("x", Assign("y", One)))>>
    /\ status = "returned"
    /\ stack = <<>>
    /\ globals = Insert(Insert(NoGlobals, "y", Number(1, 1)), "x", Number(1, 1))

\* the kinds of value C20 names as having a defined equality
EqualityKinds == {"Number", "Boolean", "Nil", "String", "List", "Adt"}

\* C20: the equality Equal computes is reflexive and symmetric: on (x, x),
\* x a number, boolean, nil, string, list or ADT instance, Equal pushes
\* true, and on (x, y) it pushes what it pushes on (y, x).
C20_EqualReflexiveSymmetric ==
    [][(At("Equal") /\ Len(stack) >= 2) =>
          /\ (Left.t \in EqualityKinds /\ Left = Right) =>
                  stack' = Append(Rest, Boolean(TRUE))
          /\ stack' = Append(Rest, Boolean(ValuesEqual(Right, Left)))]_vars

\* the keyword that each keyword lexeme stands for (token.rs:4-21)
KeywordOf(lexeme) ==
    CASE lexeme = "stel" -> "Stel"
      [] lexeme = "as" -> "As"
      [] lexeme = "anders" -> "Anders"
      [] lexeme = "terwyl" -> "Terwyl"
      [] lexeme = "druk" -> "Druk"
      [] lexeme = "waar" -> "Waar"
      [] lexeme = "vals" -> "Vals"
      [] lexeme = "funksie" -> "Funksie"
      [] lexeme = "fn" -> "Fn"
      [] lexeme = "gee" -> "Gee"
      [] lexeme = "laat" -> "Laat"
      [] lexeme = "mut" -> "Mut"
      [] lexeme = "pas" -> "Pas"
      [] lexeme = "geval" -> "Geval"
      [] lexeme = "tipe" -> "Tipe"
      [] lexeme = "of" -> "Of"
      [] OTHER -> "Identifier"

\* C21: every token the lexer has pushed whose lexeme is a keyword lexeme
\* carries that keyword's token type, never Identifier; the lexeme `stel`
\* carries Stel, the token on which Parser::declaration starts a variable
\* declaration.
C21_KeywordsAreKeywordTokens ==
    origin = "source" =>
        \A i \in DOMAIN lexer.tokens :
            KeywordOf(lexer.tokens[i].lexeme) # "Identifier" =>
                lexer.tokens[i].token_type = KeywordOf(lexer.tokens[i].lexeme)

\* how tightly each binary operator binds: the levels of Parser::factor down
\* to Parser::or as the language defines them
Precedence(operator) ==
    CASE operator \in {"Star", "Slash"} -> 6
      [] operator \in {"Plus", "Minus"} -> 5
      [] operator \in {"Less", "LessEqual", "Greater", "GreaterEqual"} -> 4
      [] operator \in {"EqualEqual", "BangEqual"} -> 3
      [] operator = "And" -> 2
      [] operator = "Or" -> 1

\* the tree of `1 o1 2 o2 3`: the tighter operator groups first, and of two
\* equally tight operators the left one
TwoOperatorTree(o1, o2) ==
    IF Precedence(o1) >= Precedence(o2)
    THEN Binary(Binary(One, o1, Two), o2, Literal(LitNumber(3)))
    ELSE Binary(One, o1, Binary(Two, o2, Literal(LitNumber(3))))

\* the source text druk(1 + 2 * 3)
OnePlusTwoTimesThree == DrukSource(<<"1", " ", "+", " ", "2", " ", "*", " ", "3">>)

\* the source text druk(3 - 2 - 1)
ThreeMinusTwoMinusOne == DrukSource(<<"3", " ", "-", " ", "2", " ", "-", " ", "1">>)

\* C22: once parsed, druk(1 o1 2 o2 3) is the print statement of the tree
\* in which o1 groups first unless o2 binds tighter, for every pair of binary
\* operators (* and / over + and -, over the ordering comparisons, over ==
\* and !=, over &&, over ||; equal levels group to the left); the source
\* druk(1 + 2 * 3) is parsed as 1 + (2 * 3) and prints 7, and
\* druk(3 - 2 - 1) is parsed as (3 - 2) - 1 and prints 0.
C22_PrecedenceAndLeftAssociativity ==
    /\ (/\ origin = "tokens"
        /\ parser.tokens \in TwoOperatorTokens
        /\ status # "parsing") =>
           /\ status \notin {"parse_error", "parse_stalled"}
           /\ program = <<PrintStmt(TwoOperatorTree(parser.tokens[4].token_type,
                                                   parser.tokens[6].token_type))>>
    /\ (/\ origin = "source"
        /\ lexer.source = OnePlusTwoTimesThree
        /\ status \notin {"lexing", "parsing"}) =>
           /\ program = <<PrintStmt(Binary(One, "Plus",
                              Binary(Two, "Star", Literal(LitNumber(3)))))>>
           /\ status \in {"returned", "end_of_code"} =>
                  /\ Len(out) = 1
                  /\ Display(out[1]) = "7"
    /\ (/\ origin = "source"
        /\ lexer.source = ThreeMinusTwoMinusOne
        /\ status \notin {"lexing", "parsing"}) =>
           /\ program = <<PrintStmt(Binary(Binary(Literal(LitNumber(3)), "Minus", Two),
                                           "Minus", One))>>
           /\ status \in {"returned", "end_of_code"} =>
                  /\ Len(out) = 1
                  /\ Display(out[1]) = "0"

\* druk(1 + 2 * 3) has been lexed, parsed, compiled and run to its Return
C22_Witness ==
    /\ origin = "source"
    /\ lexer.source = OnePlusTwoTimesThree
    /\ program = <<PrintStmt(TwoOperatorTree("Plus", "Star"))>>
    /\ status = "returned"
    /\ Len(out) = 1
    /\ Display(out[1]) = "7"

\* programs `stel x = a` followed by a block that declares x again
ShadowingPrograms ==
    {p \in Programs :
        /\ Len(p) = 2
        /\ p[1] \in {VarDecl("x", One), VarDecl("x", Zero)}
        /\ p[2].k = "Block"
        /\ \E i \in DOMAIN p[2].statements :
               /\ p[2].statements[i].k = "VarDecl"
               /\ p[2].statements[i].name = "x"}

\* C23: x is declared outside a block and another x inside it; when the
\* block has been left (the run is at the final Return or past it) the outer
\* x still holds the value of its own initializer.
C23_BlockDeclarationIsLocal ==
    (/\ origin = "compile"
     /\ program \in ShadowingPrograms
     /\ status # "error"
     /\ ip >= Len(chunk.code) - 1) =>
        /\ "x" \in DOMAIN globals
        /\ globals["x"] = LiteralValue(program[1].initializer.lit)

\* C26: the run of a chunk that Compiler::compile produced never fails with
\* a stack error: at every Pop, Print, operator, variable store and
\* JumpIfFalse the stack holds the values the instruction takes, on every
\* path through if, while, && and ||.
C26_NoStackErrorInCompiledProgram ==
    origin \in {"compile", "tokens", "source"} => err \notin {Underflow, EmptyStack}

\* how many of the calls of patch_jump were given the offset
TimesPatched(c, offset) == Cardinality({k \in DOMAIN c.patched : c.patched[k] = offset})

\* the runs whose chunk Compiler::compile returned as Ok
Compiled ==
    /\ origin \in {"compile", "tokens", "source"}
    /\ status \in {"running", "returned", "end_of_code", "error"}

\* C27: in a chunk that compile returned, every JumpIfFalse and every
\* forward Jump (the jumps emitted with the placeholder 0) was patched
\* exactly once, a backward Jump (a loop's, emitted with its target) never;
\* every jump target is the index of an instruction of the chunk, whose last
\* is the final Return; every Constant(k) has k below the size of the pool.
C27_JumpsPatchedAndInRange ==
    Compiled =>
        LET c == Compile(program)
            code == chunk.code
        IN  /\ chunk = c.chunk
            /\ code[Len(code)] = Op("Return")
            /\ \A i \in 0 .. Len(code) - 1 :
                   /\ code[i + 1].op \in {"Jump", "JumpIfFalse"} =>
                          /\ code[i + 1].target \in 0 .. Len(code) - 1
                          /\ TimesPatched(c, i) =
                                 IF code[i + 1].op = "JumpIfFalse" \/ code[i + 1].target > i
                                 THEN 1 ELSE 0
                   /\ code[i + 1].op \notin {"Jump", "JumpIfFalse"} => TimesPatched(c, i) = 0
                   /\ code[i + 1].op = "Constant" => code[i + 1].idx < Len(chunk.constants)

\* a compiled chunk with an if-else before a loop: three patched jumps, one
\* backward jump and constants
C27_Witness ==
    /\ Compiled
    /\ Len(program) = 2
    /\ program[1].k = "If"
    /\ program[1].else_branch # <<>>
    /\ program[2].k = "While"
    /\ Len(Compile(program).patched) = 3
    /\ \E i \in DOMAIN chunk.code :
           chunk.code[i].op = "Jump" /\ chunk.code[i].target < i - 1
    /\ chunk.constants # <<>>

\* the statement is a while loop or holds one
RECURSIVE HasWhile(_)
HasWhile(stmt) ==
    CASE stmt.k = "While" -> TRUE
      [] stmt.k = "Block" -> \E i \in DOMAIN stmt.statements : HasWhile(stmt.statements[i])
      [] stmt.k = "If" ->
             \/ HasWhile(stmt.then_branch)
             \/ stmt.else_branch # <<>> /\ HasWhile(stmt.else_branch[1])
      [] OTHER -> FALSE

\* the run of a chunk compiled from a program without a while loop
LoopFree == Compiled /\ \A i \in DOMAIN program : ~HasWhile(program[i])

\* C28: in the chunk compiled from a program without a while loop every
\* jump target is greater than the jump's own index and the chunk ends with
\* Return, which a running VM has not passed; every step of the run moves ip
\* forward within the chunk and leaves the VM running, returned or failed.
\* ip starts at 0, so no run takes more steps than the chunk has
\* instructions.
C28_LoopFreeRunsForward ==
    [][(LoopFree /\ status = "running") =>
          /\ \A i \in 0 .. Len(chunk.code) - 1 :
                 chunk.code[i + 1].op \in {"Jump", "JumpIfFalse"} =>
                     chunk.code[i + 1].target > i
          /\ chunk.code[Len(chunk.code)] = Op("Return")
          /\ ip < Len(chunk.code)
          /\ ip' > ip
          /\ ip' <= Len(chunk.code)
          /\ status' \in {"running", "returned", "error"}]_vars

\* a program with an if-else and no loop has run over its jumps to Return
C28_Witness ==
    /\ LoopFree
    /\ \E i \in DOMAIN program : program[i].k = "If" /\ program[i].else_branch # <<>>
    /\ \E i \in DOMAIN chunk.code : chunk.code[i].op = "Jump"
    /\ status = "returned"
    /\ ip = Len(chunk.code)

\* the token list ends with Eof and holds no other
EndsWithOneEof(tokens) ==
    /\ tokens # <<>>
    /\ \A i \in DOMAIN tokens : tokens[i].token_type = "Eof" <=> i = Len(tokens)

\* C29: given a token list that ends with a single Eof, the parser's cursor
\* stays within the list, at most on the Eof; advance was never called with
\* the cursor on Eof; and parse has come to an end without an iteration of
\* the top-level loop or of the block loop that neither consumed a token nor
\* returned an error.
C29_ParserStopsAtEof ==
    (/\ origin \in {"tokens", "source"}
     /\ status # "lexing"
     /\ EndsWithOneEof(parser.tokens)) =>
        /\ parser.current <= Len(parser.tokens) - 1
        /\ parser.eof_advances = 0
        /\ ~parser.stalled
        /\ status # "parse_stalled"

\* parse has gone through a block with a statement in it and has stopped
\* with the cursor on Eof
C29_Witness ==
    /\ origin = "tokens"
    /\ EndsWithOneEof(parser.tokens)
    /\ status = "returned"
    /\ parser.current = Len(parser.tokens) - 1
    /\ \E i \in DOMAIN program :
           program[i].k = "Block" /\ program[i].statements # <<>>

\* how many of tokens[lo..hi] (1-based) are of the type
CountOf(tokens, token_type, lo, hi) ==
    Cardinality({m \in lo .. hi : tokens[m].token_type = token_type})

\* the closing brackets with no still-open opener of their kind before them:
\* from no earlier point on do the openers outnumber the closers
UnmatchedClosers(tokens, opener, closer) ==
    {k \in DOMAIN tokens :
        /\ tokens[k].token_type = closer
        /\ \A j \in 1 .. k - 1 :
               CountOf(tokens, opener, j, k - 1) <= CountOf(tokens, closer, j, k - 1)}

\* the openers still unmatched at the end: up to no later point do the
\* closers outnumber the openers
UnmatchedOpeners(tokens, opener, closer) ==
    {k \in DOMAIN tokens :
        /\ tokens[k].token_type = opener
        /\ \A m \in k + 1 .. Len(tokens) :
               CountOf(tokens, closer, k + 1, m) <= CountOf(tokens, opener, k + 1, m)}

\* the brackets of one kind are balanced: no prefix has more closers than
\* openers, and the whole has as many of the one as of the other
Balanced(tokens, opener, closer) ==
    /\ \A m \in DOMAIN tokens :
           CountOf(tokens, closer, 1, m) <= CountOf(tokens, opener, 1, m)
    /\ CountOf(tokens, closer, 1, Len(tokens)) = CountOf(tokens, opener, 1, Len(tokens))

\* the diagnostics with the message are one for each of the tokens at the
\* positions, with the token's range, and no other
ReportsExactly(message, positions) ==
    /\ Cardinality({i \in DOMAIN analysis.diagnostics :
                       analysis.diagnostics[i].message = message})
           = Cardinality(positions)
    /\ \A k \in positions :
           \E i \in DOMAIN analysis.diagnostics :
               analysis.diagnostics[i] = DiagnosticAt(analysis.tokens[k], message)

\* the messages of the four bracket diagnostics
BracketMessages ==
    {"Ongepaarde ')' - geen ooreenstemmende '(' gevind",
     "Ongepaarde '}' - geen ooreenstemmende '{' gevind",
     "Ongeslote '(' - verwag ')'", "Ongeslote '{' - verwag '}'"}

\* C30: when parse_for_diagnostics has ended, its "Ongepaarde" diagnostics
\* are one for exactly each closing paren or brace with no still-open opener
\* of its kind before it, its "Ongeslote" diagnostics one for exactly each
\* opener still unmatched at the end, parens and braces each on their own;
\* so there is no bracket diagnostic exactly when each kind alone is balanced.
C30_BracketDiagnostics ==
    (origin = "document" /\ analysis.stage = "done") =>
        LET tokens == analysis.tokens
        IN  /\ ReportsExactly("Ongepaarde ')' - geen ooreenstemmende '(' gevind",
                              UnmatchedClosers(tokens, "LeftParen", "RightParen"))
            /\ ReportsExactly("Ongepaarde '}' - geen ooreenstemmende '{' gevind",
                              UnmatchedClosers(tokens, "LeftBrace", "RightBrace"))
            /\ ReportsExactly("Ongeslote '(' - verwag ')'",
                              UnmatchedOpeners(tokens, "LeftParen", "RightParen"))
            /\ ReportsExactly("Ongeslote '{' - verwag '}'",
                              UnmatchedOpeners(tokens, "LeftBrace", "RightBrace"))
            /\ (\A i \in DOMAIN analysis.diagnostics :
                    analysis.diagnostics[i].message \notin BracketMessages)
               <=> /\ Balanced(tokens, "LeftParen", "RightParen")
                   /\ Balanced(tokens, "LeftBrace", "RightBrace")

\* the analysis of a document has ended with an unpaired closing brace
\* reported and an opening paren reported unclosed: `( }` with the paren
\* still open when the brace comes
C30_Witness ==
    /\ origin = "document"
    /\ analysis.stage = "done"
    /\ \E k \in DOMAIN analysis.tokens :
           /\ k > 1
           /\ analysis.tokens[k].token_type = "RightBrace"
           /\ analysis.tokens[k - 1].token_type = "LeftParen"
           /\ \E i \in DOMAIN analysis.diagnostics :
                  analysis.diagnostics[i] =
                      DiagnosticAt(analysis.tokens[k],
                                   "Ongepaarde '}' - geen ooreenstemmende '{' gevind")
           /\ \E i \in DOMAIN analysis.diagnostics :
                  analysis.diagnostics[i] =
                      DiagnosticAt(analysis.tokens[k - 1], "Ongeslote '(' - verwag ')'")

\* the run of a program in which inc and get captured the same local, whose
\* initial value is c0
SharedCellRun(c0) ==
    /\ origin = "frames"
    /\ fvm.functions \in {SharedCellInBlock(c0), SharedCellInFunction(c0)}

\* C24: the two closures inc and get, which captured the same enclosing
\* local, hold one and the same upvalue cell; a write through inc is what a
\* read through get returns from then on, whether the cell is open or
\* closed at the time; so druk(get()) after inc() prints the incremented
\* value, before and after the local has left the stack.
C24_ClosuresShareUpvalueCell ==
    [][\A c0 \in 0 .. MaxLoop :
          (SharedCellRun(c0) /\ {"inc", "get"} \subseteq DOMAIN fvm.globals) =>
              LET inc == fvm.globals["inc"]
                  get == fvm.globals["get"]
              IN  /\ inc.rc # get.rc
                  /\ inc.upvalues = get.upvalues
                  /\ (FrameAt("SetUpvalue") /\ CurrentFrame(fvm).closure = inc) =>
                         ReadUpvalue(fvm', get.upvalues[1]) = FrameTop(fvm)
                  /\ (FrameAt("GetUpvalue") /\ CurrentFrame(fvm).closure = get) =>
                         FrameTop(fvm') = ReadUpvalue(fvm, inc.upvalues[1])
                  /\ \A k \in DOMAIN fvm.out : fvm.out[k] = Number(c0 + k, 1)]_vars

\* get has read what inc wrote twice: once while the cell was open and once
\* after it was closed, which it now is
C24_Witness ==
    \E c0 \in 0 .. MaxLoop :
        /\ SharedCellRun(c0)
        /\ fvm.out = <<Number(c0 + 1, 1), Number(c0 + 2, 1)>>
        /\ fvm.cells = <<Closed(Number(c0 + 2, 1))>>
        /\ fvm.globals["inc"].upvalues = <<1>>
        /\ fvm.globals["get"].upvalues = <<1>>

\* C25: while the tail-recursive loop(n0) runs, for every n0 up to MaxLoop,
\* the call-frame stack holds at most two frames, that of the top-level code
\* and that of loop; TailCall leaves the number of frames as it is and goes
\* on in the same frame, at the same base, from ip 0.
C25_TailCallReusesFrame ==
    [][(origin = "frames" /\ \E n0 \in 0 .. MaxLoop : fvm.functions = TailLoop(n0)) =>
          /\ Len(fvm.frames) <= 2
          /\ FrameAt("TailCall") =>
                 /\ fvm'.status = "running"
                 /\ Len(fvm'.frames) = Len(fvm.frames)
                 /\ CurrentFrame(fvm').base = CurrentFrame(fvm).base
                 /\ CurrentFrame(fvm').ip = 0
                 /\ Len(fvm'.stack) = CurrentFrame(fvm).base + 1]_vars

\* the loop of MaxLoop iterations has come to its end and printed 0
C25_Witness ==
    /\ origin = "frames"
    /\ fvm.functions = TailLoop(MaxLoop)
    /\ fvm.status = "returned"
    /\ fvm.out = <<Number(0, 1)>>

====
